---------------------------- MODULE Spec2Model ----------------------------
(***************************************************************************)
(* Model of the energy report server (src/unnamed/part_000): the MAC       *)
(* normaliser, the meters-mapping cache, the calendar period generator,    *)
(* the batched bucket queries of getEnergyReadings, the delta aggregation  *)
(* of calculateEnergyFromInfluxData and the /api/data handler.             *)
(*                                                                         *)
(* Conventions.                                                            *)
(*  - A JavaScript string that the code takes apart (a MAC address) is a   *)
(*    sequence of one-character strings.  null is the value Null.          *)
(*  - A JavaScript object used as a map is a function whose DOMAIN is the  *)
(*    set of its own keys.                                                 *)
(*  - An energy value is an integer number of 0.0001 kWh, one decimal      *)
(*    finer than the three decimals toFixed(3) keeps.                      *)
(***************************************************************************)
EXTENDS Integers, Sequences, FiniteSets, TLC

(***************************************************************************)
(* Characters and strings                                                  *)
(***************************************************************************)
Null == <<"null">>

Delimiters == {":", "-", " "}

\* String.prototype.toLowerCase on one character of the MAC alphabet.
toLowerCase(c) ==
    CASE c = "A" -> "a"
      [] c = "B" -> "b"
      [] c = "C" -> "c"
      [] c = "D" -> "d"
      [] c = "E" -> "e"
      [] c = "F" -> "f"
      [] OTHER -> c

\* mac.replace(/[:\s-]/g, "")
StripColons(s) == SelectSeq(s, LAMBDA ch : ch # ":")

StripDelimiters(s) == SelectSeq(s, LAMBDA ch : ch \notin Delimiters)

LowerAll(s) == [i \in 1..Len(s) |-> toLowerCase(s[i])]

\* A falsy string argument: null (or undefined) or the empty string.
Falsy(s) == s = Null \/ s = <<>>

normalizeMacAddress(mac) ==
    IF Falsy(mac) THEN Null ELSE LowerAll(StripDelimiters(mac))

SUPPLY_MAC_NORMALIZED ==
    <<"0","8",":","f","9",":","e","0",":","7","3",":","6","4",":","d","b">>


(***************************************************************************)
(* Calendar arithmetic of dayjs in the fixed zone Asia/Shanghai            *)
(*                                                                         *)
(* A date-time is <<year, month 1..12, day, hour, ms within the hour>>, in *)
(* local time or in UTC; that tuple is also what an ISO string spells, so  *)
(* the order of two tuples is the order of the two instants.               *)
(***************************************************************************)
UtcOffsetHours == 8

MsPerHour == 60 * 60 * 1000

IsLeapYear(y) == (y % 4 = 0 /\ y % 100 # 0) \/ y % 400 = 0

DaysInMonth(y, mo) ==
    IF mo = 2 THEN (IF IsLeapYear(y) THEN 29 ELSE 28)
    ELSE IF mo \in {4, 6, 9, 11} THEN 30 ELSE 31

\* a < b as instants
IsBefore(a, b) ==
    \E i \in 1..5 : a[i] < b[i] /\ \A j \in 1..(i - 1) : a[j] = b[j]

PrevDay(t) ==
    IF t[3] > 1 THEN <<t[1], t[2], t[3] - 1, t[4], t[5]>>
    ELSE IF t[2] > 1
         THEN <<t[1], t[2] - 1, DaysInMonth(t[1], t[2] - 1), t[4], t[5]>>
         ELSE <<t[1] - 1, 12, 31, t[4], t[5]>>

NextDay(t) ==
    IF t[3] < DaysInMonth(t[1], t[2]) THEN <<t[1], t[2], t[3] + 1, t[4], t[5]>>
    ELSE IF t[2] < 12 THEN <<t[1], t[2] + 1, 1, t[4], t[5]>>
         ELSE <<t[1] + 1, 1, 1, t[4], t[5]>>

\* d.utc().toISOString() of a local date-time
ToUtc(t) ==
    IF t[4] >= UtcOffsetHours
    THEN <<t[1], t[2], t[3], t[4] - UtcOffsetHours, t[5]>>
    ELSE LET p == PrevDay(t)
         IN  <<p[1], p[2], p[3], t[4] + 24 - UtcOffsetHours, p[5]>>

StartOf(t, unit) ==
    CASE unit = "hour"  -> <<t[1], t[2], t[3], t[4], 0>>
      [] unit = "day"   -> <<t[1], t[2], t[3], 0, 0>>
      [] unit = "month" -> <<t[1], t[2], 1, 0, 0>>
      [] unit = "year"  -> <<t[1], 1, 1, 0, 0>>

EndOf(t, unit) ==
    CASE unit = "hour"  -> <<t[1], t[2], t[3], t[4], MsPerHour - 1>>
      [] unit = "day"   -> <<t[1], t[2], t[3], 23, MsPerHour - 1>>
      [] unit = "month" ->
            <<t[1], t[2], DaysInMonth(t[1], t[2]), 23, MsPerHour - 1>>
      [] unit = "year"  -> <<t[1], 12, 31, 23, MsPerHour - 1>>

\* d.add(1, unit); a month or a year is added to a first of the month only.
AddOne(t, unit) ==
    CASE unit = "hour"  ->
            IF t[4] < 23 THEN <<t[1], t[2], t[3], t[4] + 1, t[5]>>
            ELSE NextDay(<<t[1], t[2], t[3], 0, t[5]>>)
      [] unit = "day"   -> NextDay(t)
      [] unit = "month" ->
            IF t[2] < 12 THEN <<t[1], t[2] + 1, t[3], t[4], t[5]>>
            ELSE <<t[1] + 1, 1, t[3], t[4], t[5]>>
      [] unit = "year"  -> <<t[1] + 1, t[2], t[3], t[4], t[5]>>

\* a.isSame(b, unit)
IsSame(a, b, unit) ==
    /\ ~IsBefore(b, StartOf(a, unit))
    /\ ~IsBefore(EndOf(a, unit), b)

\* dayjs.tz(date, TIMEZONE) of a date string "YYYY-MM-DD", <<y, m, d>> here
LocalDate(date) == <<date[1], date[2], date[3], 0, 0>>

(***************************************************************************)
(* Small helpers                                                           *)
(***************************************************************************)
Range(s) == {s[i] : i \in 1..Len(s)}

RECURSIVE SumOver(_, _)
\* The sum of f[x] over the finite set S.
SumOver(S, f) ==
    IF S = {} THEN 0
    ELSE LET x == CHOOSE y \in S : TRUE
         IN  f[x] + SumOver(S \ {x}, f)

\* A request without a room parameter (undefined or "": both are falsy).
NoRoom == ""

(***************************************************************************)
(* calculateEnergyFromInfluxData (part_000 237-328)                        *)
(*                                                                         *)
(* A row is [mac_address, _value, _time]; mappingData is                   *)
(* [macToRoomMap, roomToMacsMap, originalMacFormats].                      *)
(***************************************************************************)

\* The keys of macGroups: the truthy normalised MACs of the rows.
MacGroupKeys(data) ==
    {normalizeMacAddress(data[i].mac_address) : i \in 1..Len(data)}
        \ {Null, <<>>}

\* macGroups[normalizedMac]: the rows of that MAC, in input order.
MacGroup(data, normalizedMac) ==
    SelectSeq(data,
              LAMBDA row : normalizeMacAddress(row.mac_address) = normalizedMac)

\* One step of the stable sort: r goes behind every row that is not later.
RECURSIVE InsertByTime(_, _)
InsertByTime(sorted, r) ==
    IF sorted = <<>> THEN <<r>>
    ELSE IF ~IsBefore(r._time, Head(sorted)._time)
         THEN <<Head(sorted)>> \o InsertByTime(Tail(sorted), r)
         ELSE <<r>> \o sorted

\* readings.sort((a, b) => new Date(a._time) - new Date(b._time)),
\* Array.prototype.sort being stable.
RECURSIVE SortByTime(_)
SortByTime(readings) ==
    IF readings = <<>> THEN <<>>
    ELSE InsertByTime(SortByTime(SubSeq(readings, 1, Len(readings) - 1)),
                      readings[Len(readings)])

UnsortedDelta(readings) ==
    readings[Len(readings)]._value - readings[1]._value

ClampedDelta(readings) ==
    LET sorted == SortByTime(readings)
        d == sorted[Len(sorted)]._value - sorted[1]._value
    IN  IF d < 0 THEN 0 ELSE d

\* energyDelta of one group of at least 2 readings.
EnergyDelta(readings) ==
    LET sorted == SortByTime(readings)
        firstReading == sorted[1]
        lastReading == sorted[Len(sorted)]
    IN  lastReading._value - firstReading._value

\* The groups that reach the classification (the others return early).
DeltaGroups(data) ==
    {m \in MacGroupKeys(data) : Len(MacGroup(data, m)) >= 2}

IsSupplyMac(normalizedMac) ==
    normalizedMac = normalizeMacAddress(SUPPLY_MAC_NORMALIZED)

SupplyAlsoConsumes(normalizedMac, macToRoomMap, room) ==
    IF room # NoRoom
    THEN /\ normalizedMac \in DOMAIN macToRoomMap
         /\ macToRoomMap[normalizedMac] # ""
         /\ macToRoomMap[normalizedMac] = room
    ELSE normalizedMac \in DOMAIN macToRoomMap

AnyRoomConsumes(normalizedMac, macToRoomMap, room) ==
    IF IsSupplyMac(normalizedMac) THEN FALSE
    ELSE normalizedMac \in DOMAIN macToRoomMap

UnmappedAlsoConsumes(normalizedMac, macToRoomMap, room) ==
    IF IsSupplyMac(normalizedMac) THEN FALSE
    ELSE IF room # NoRoom
    THEN /\ normalizedMac \in DOMAIN macToRoomMap
         /\ macToRoomMap[normalizedMac] # ""
         /\ macToRoomMap[normalizedMac] = room
    ELSE TRUE

\* Whether the delta of normalizedMac is added to consumptionEnergy.
AddsToConsumption(normalizedMac, macToRoomMap, room) ==
    IF IsSupplyMac(normalizedMac) THEN FALSE
    ELSE IF room # NoRoom
    THEN /\ normalizedMac \in DOMAIN macToRoomMap
         /\ macToRoomMap[normalizedMac] # ""
         /\ macToRoomMap[normalizedMac] = room
    ELSE normalizedMac \in DOMAIN macToRoomMap

\* parseFloat(x.toFixed(3)): x to the nearest thousandth of a kWh (10 units).
\* The inputs of the model never lie exactly halfway between two
\* thousandths, where the binary value of x would decide.
ToFixed3(x) ==
    IF x >= 0 THEN ((x + 5) \div 10) * 10
    ELSE 0 - ((((0 - x) + 5) \div 10) * 10)

MathMax(a, b) == IF a >= b THEN a ELSE b

Unclamped(x) == ToFixed3(x)

\* Math.max(0, parseFloat(x.toFixed(3)))
ClampedTotal(x) == MathMax(0, ToFixed3(x))

calculateEnergyFromInfluxData(data, mappingData, room) ==
    LET macToRoomMap == mappingData.macToRoomMap
        groups == DeltaGroups(data)
        delta == [m \in groups |-> EnergyDelta(MacGroup(data, m))]
        consumptionEnergy ==
            SumOver({m \in groups : AddsToConsumption(m, macToRoomMap, room)},
                    delta)
        supplyEnergy == SumOver({m \in groups : IsSupplyMac(m)}, delta)
    IN  [consumption |-> ClampedTotal(consumptionEnergy),
         supply |-> ClampedTotal(supplyEnergy)]

(***************************************************************************)
(* The mapping built by getMetersMapping (part_000 115-159)                *)
(*                                                                         *)
(* A row of the meters query is [meter_mac, room_id, _time]; room_id is a  *)
(* string (row.room_id.toString()) or Undefined.                           *)
(***************************************************************************)
Undefined == "undefined"

EmptyMapping ==
    [macToRoomMap |-> <<>>, roomToMacsMap |-> <<>>, originalMacFormats |-> <<>>]

\* obj[key] = value
Put(obj, key, value) == (key :> value) @@ obj

\* roomToMacsMap[roomId] after the push of entry.
PushRoomEntry(roomToMacsMap, roomId, entry) ==
    Put(roomToMacsMap, roomId,
        IF roomId \in DOMAIN roomToMacsMap
        THEN Append(roomToMacsMap[roomId], entry)
        ELSE <<entry>>)

\* The body of rows.forEach for one row.
AddMeterRow(acc, row) ==
    IF Falsy(row.meter_mac) \/ row.room_id = Undefined THEN acc
    ELSE LET originalMac == row.meter_mac
             normalizedMac == normalizeMacAddress(originalMac)
             roomId == row.room_id
         IN  IF Falsy(normalizedMac) THEN acc
             ELSE [macToRoomMap |-> Put(acc.macToRoomMap, normalizedMac, roomId),
                   originalMacFormats |->
                       Put(acc.originalMacFormats, normalizedMac, originalMac),
                   roomToMacsMap |->
                       PushRoomEntry(acc.roomToMacsMap, roomId,
                                     [normalized |-> normalizedMac,
                                      original |-> originalMac])]

RECURSIVE BuildMappingFrom(_, _)
BuildMappingFrom(acc, rows) ==
    IF rows = <<>> THEN acc
    ELSE BuildMappingFrom(AddMeterRow(acc, Head(rows)), Tail(rows))

\* mappingData as built from the rows of one storage response.
BuildMapping(rows) == BuildMappingFrom(EmptyMapping, rows)

(***************************************************************************)
(* getTimePeriods (part_000 331-391)                                       *)
(***************************************************************************)
ValidPeriods == {"hour", "day", "month", "year"}

\* dayjs.tz("2023-01-01", TIMEZONE), the start of the year view
YearViewStart == <<2023, 1, 1, 0, 0>>

\* The span of the unit that holds the buckets of a view.
SpanUnit(period) ==
    CASE period = "hour"  -> "day"
      [] period = "day"   -> "month"
      [] period = "month" -> "year"
      [] period = "year"  -> "year"

ConfigStartAtDate(period, localInputDate) ==
    IF period = "year" THEN YearViewStart ELSE localInputDate

ConfigStartOfSpan(period, localInputDate) ==
    StartOf(localInputDate, SpanUnit(period))

ConfigStart(period, localInputDate) ==
    IF period = "year" THEN YearViewStart
    ELSE StartOf(localInputDate, SpanUnit(period))

ConfigEnd(period, localInputDate) == EndOf(localInputDate, SpanUnit(period))

\* config.getValue(d)
GetValue(period, d) ==
    CASE period = "hour"  -> d[4]
      [] period = "day"   -> d[3]
      [] period = "month" -> d[2] - 1
      [] period = "year"  -> d[1]

\* current.format(config.format): the fields the label shows.
FormatLabel(period, d) ==
    CASE period = "hour"  -> <<"HH:00", d[4]>>
      [] period = "day"   -> <<"MMM DD", d[2], d[3]>>
      [] period = "month" -> <<"MMMM", d[2]>>
      [] period = "year"  -> <<"YYYY", d[1]>>

TimePeriod(period, current) ==
    [local |-> current,
     utcStart |-> ToUtc(StartOf(current, period)),
     utcEnd |-> ToUtc(EndOf(current, period)),
     timestamp |-> FormatLabel(period, current),
     fullTimestamp |-> ToUtc(current),
     period |-> GetValue(period, current)]

RECURSIVE PeriodLoop(_, _, _)
\* The while loop, from the bucket that starts at current.
PeriodLoop(period, current, end) ==
    IF IsBefore(current, end) \/ IsSame(current, end, period)
    THEN <<TimePeriod(period, current)>>
             \o PeriodLoop(period, AddOne(current, period), end)
    ELSE <<>>

getTimePeriods(period, inputDate) ==
    IF period \notin ValidPeriods THEN <<>>
    ELSE LET localInputDate == LocalDate(inputDate)
         IN  PeriodLoop(period, ConfigStart(period, localInputDate),
                        ConfigEnd(period, localInputDate))

(***************************************************************************)
(* buildDateRangeQuery (part_000 179-207)                                  *)
(***************************************************************************)
\* "2023-01-01T00:00:00.000Z", the start of the year range, a UTC instant
YearRangeStart == <<2023, 1, 1, 0, 0>>

\* ranges[period], for a period that is a key of ranges
DateRange(period, localDate) ==
    [start |-> IF period = "year" THEN YearRangeStart
               ELSE ToUtc(StartOf(localDate, SpanUnit(period))),
     stop |-> ToUtc(EndOf(localDate, SpanUnit(period)))]

\* ranges[period] || ranges.hour
buildDateRangeQuery(period, date) ==
    IF period \in ValidPeriods THEN DateRange(period, LocalDate(date))
    ELSE DateRange("hour", LocalDate(date))

(***************************************************************************)
(* The storage collaborator: the contents of the two buckets               *)
(***************************************************************************)
\* Display forms of the device identifiers the two buckets hold.
MacA == <<"A","A",":","0","1">>
MacALower == <<"a","a","0","1">>
MacB == <<"a","a","-","0","2">>
MacU == <<"A","A",":","0","9">>
SupplyMac ==
    <<"0","8",":","F","9",":","E","0",":","7","3",":","6","4",":","D","B">>

\* The responses the meters query can give: the table as first loaded, and
\* the table after meter A has moved to room 2 and the supply meter has been
\* entered for room 1.
MeterResponses ==
    { << [meter_mac |-> MacA, room_id |-> "1", _time |-> <<2023, 1, 5, 0, 0>>],
         [meter_mac |-> MacB, room_id |-> "2", _time |-> <<2023, 1, 5, 0, 0>>] >>,
      << [meter_mac |-> MacA, room_id |-> "2", _time |-> <<2024, 1, 5, 0, 0>>],
         [meter_mac |-> SupplyMac, room_id |-> "1",
          _time |-> <<2024, 1, 5, 0, 0>>] >> }

Reading(mac, t, v) == [mac_address |-> mac, _time |-> t, _value |-> v]

\* The energy readings of the pzem bucket (UTC instants), series by series
\* and by time within a series, as the sorted query returns them.
Store ==
    << Reading(MacA, <<2023, 6, 16, 2, 0>>, 50000),
       Reading(MacA, <<2023, 6, 16, 2, 1800000>>, 91000),
       Reading(MacA, <<2023, 6, 16, 2, 3540000>>, 75004),
       Reading(MacA, <<2023, 6, 17, 3, 0>>, 90000),
       Reading(MacA, <<2024, 2, 29, 5, 0>>, 400),
       Reading(MacA, <<2024, 2, 29, 6, 0>>, 100),
       Reading(MacB, <<2023, 6, 16, 2, 0>>, 20000),
       Reading(MacB, <<2023, 11, 2, 7, 0>>, 20006),
       Reading(MacU, <<2023, 6, 16, 2, 0>>, 10000),
       Reading(MacU, <<2023, 6, 16, 2, 3540000>>, 30000),
       Reading(SupplyMac, <<2023, 6, 16, 2, 0>>, 500000),
       Reading(SupplyMac, <<2023, 6, 16, 2, 3540000>>, 580000),
       Reading(SupplyMac, <<2024, 2, 29, 5, 0>>, 600000) >>

QueryRowsFromStart(timePeriod, macFilter) ==
    SelectSeq(Store,
        LAMBDA r : /\ ~IsBefore(r._time, timePeriod.utcStart)
                   /\ (Len(macFilter) > 0 => r.mac_address \in Range(macFilter)))

\* The rows of one bucket query: range(start, stop) keeps start <= _time <
\* stop, and the contains filter keeps the rows whose mac_address is,
\* letter for letter, one of macFilter.
QueryRows(timePeriod, macFilter) ==
    SelectSeq(Store,
        LAMBDA r : /\ ~IsBefore(r._time, timePeriod.utcStart)
                   /\ IsBefore(r._time, timePeriod.utcEnd)
                   /\ (Len(macFilter) > 0 => r.mac_address \in Range(macFilter)))

(***************************************************************************)
(* State                                                                   *)
(***************************************************************************)
VARIABLES
    now,            \* Date.now(), in ms since the server started
    metersCache,    \* the cached mappingData, or NoMapping (null)
    cacheTimestamp, \* the now of the call that filled the cache, 0 for null
    loadedAt,       \* when the rows that filled the cache arrived, 0 if never
    pc,             \* where each request stands
    req,            \* req.query of each request: period, room, date
    callNow,        \* the now its getMetersMapping call read
    mappingData,    \* the mapping its getMetersMapping call returned
    macFilter,      \* the device filter of its bucket queries
    timePeriods,    \* the buckets getTimePeriods gave it
    batchStart,     \* i of the batch loop (0-based)
    query,          \* the state of each bucket query: none, out, ok, fail
    issued,         \* how many times each bucket query has been issued
    entry,          \* what each completed bucket query returned
    results,        \* the results array of getEnergyReadings
    resp,           \* the response sent, status 0 while there is none
    mapSource,      \* how its mapping was obtained: cache, load or fallback
    arg,            \* the arguments of a function examined on its own
    ret             \* and what it returned

serverVars == <<now, metersCache, cacheTimestamp, loadedAt>>
requestVars == <<pc, req, callNow, mappingData, macFilter, timePeriods,
                 batchStart, query, issued, entry, results, resp, mapSource>>
functionVars == <<arg, ret>>
vars == <<now, metersCache, cacheTimestamp, loadedAt, pc, req, callNow,
          mappingData, macFilter, timePeriods, batchStart, query, issued,
          entry, results, resp, mapSource, arg, ret>>

\* The requests that can be in progress at once: one of /api/data and one
\* of /api/debug/mappings, the other caller of getMetersMapping.
DataClients == {1}
DebugClients == {2}
Clients == DataClients \cup DebugClients

\* 5 * 60 * 1000 ms
CACHE_DURATION == 5 * 60 * 1000

batchSize == 10

\* The clock advances in steps of 150 s, MaxTicks times at most.
TickMs == 150 * 1000
MaxTicks == 2

\* The bucket queries of one request that may fail.
MaxFailures == 1

NoMapping == [null |-> TRUE]
NoRequest == [period |-> "", room |-> NoRoom, date |-> <<>>]
NoResponse == [status |-> 0]
NoEntry == [none |-> TRUE]
InvalidDate == <<>>

(***************************************************************************)
(* getMetersMapping (part_000 89-176)                                      *)
(***************************************************************************)
CacheHitReversed(cache, timestamp, t) ==
    /\ cache # NoMapping
    /\ timestamp # 0
    /\ t - timestamp > CACHE_DURATION

\* metersCache && cacheTimestamp && now - cacheTimestamp < CACHE_DURATION
CacheHit(cache, timestamp, t) ==
    /\ cache # NoMapping
    /\ timestamp # 0
    /\ t - timestamp < CACHE_DURATION

AlwaysEmptyFallback(cache) == EmptyMapping

\* The value of the catch block: metersCache || { empty maps }
FallbackMapping(cache) == IF cache # NoMapping THEN cache ELSE EmptyMapping

MixedSnapshot(old, new) ==
    IF old = NoMapping THEN new
    ELSE [new EXCEPT !.roomToMacsMap = old.roomToMacsMap]

\* metersCache = mappingData: the cache after a load, old being the cache
\* before it and new the mapping just built.
InstalledSnapshot(old, new) == new

\* The call of getMetersMapping up to its first await: the cached mapping
\* is returned, or the meters query is issued.
CallGetMetersMapping(c) ==
    /\ callNow' = [callNow EXCEPT ![c] = now]
    /\ IF CacheHit(metersCache, cacheTimestamp, now)
       THEN /\ mappingData' = [mappingData EXCEPT ![c] = metersCache]
            /\ mapSource' = [mapSource EXCEPT ![c] = "cache"]
            /\ pc' = [pc EXCEPT ![c] = "gotMapping"]
       ELSE /\ pc' = [pc EXCEPT ![c] = "fetchMapping"]
            /\ UNCHANGED <<mappingData, mapSource>>

\* queryApi.collectRows resolves with rows: lines 113-164.
MetersLoad(c, rows) ==
    /\ pc[c] = "fetchMapping"
    /\ LET built == BuildMapping(rows)
           installed == InstalledSnapshot(metersCache, built)
       IN  /\ metersCache' = installed
           /\ cacheTimestamp' = callNow[c]
           /\ loadedAt' = now
           /\ mappingData' = [mappingData EXCEPT ![c] = installed]
    /\ mapSource' = [mapSource EXCEPT ![c] = "load"]
    /\ pc' = [pc EXCEPT ![c] = "gotMapping"]
    /\ UNCHANGED <<now, req, callNow, macFilter, timePeriods,
                   batchStart, query, issued, entry, results, resp,
                   arg, ret>>

MetersQueryOk(c) == \E rows \in MeterResponses : MetersLoad(c, rows)

MetersQueryFailCached(c) ==
    /\ pc[c] = "fetchMapping"
    /\ metersCache' = FallbackMapping(metersCache)
    /\ cacheTimestamp' = callNow[c]
    /\ mappingData' = [mappingData EXCEPT ![c] = FallbackMapping(metersCache)]
    /\ mapSource' = [mapSource EXCEPT ![c] = "fallback"]
    /\ pc' = [pc EXCEPT ![c] = "gotMapping"]
    /\ UNCHANGED <<now, loadedAt, req, callNow, macFilter, timePeriods,
                   batchStart, query, issued, entry, results, resp, arg, ret>>

\* queryApi.collectRows rejects: lines 165-175.
MetersQueryFail(c) ==
    /\ pc[c] = "fetchMapping"
    /\ mappingData' = [mappingData EXCEPT ![c] = FallbackMapping(metersCache)]
    /\ mapSource' = [mapSource EXCEPT ![c] = "fallback"]
    /\ pc' = [pc EXCEPT ![c] = "gotMapping"]
    /\ UNCHANGED <<serverVars, req, callNow, macFilter, timePeriods,
                   batchStart, query, issued, entry, results, resp, arg, ret>>

(***************************************************************************)
(* getEnergyReadings (part_000 394-464)                                    *)
(***************************************************************************)
Min(a, b) == IF a <= b THEN a ELSE b

UnbatchedIndexes(i, n) == (i + 1)..n

\* The buckets (1-based) of timePeriods.slice(i, i + batchSize), n buckets.
BatchIndexes(i, n) == (i + 1)..Min(i + batchSize, n)

\* What the callback of batch.map returns for one bucket.
BucketEntry(timePeriod, data, mapping, room) ==
    LET energy == IF Len(data) > 0
                  THEN calculateEnergyFromInfluxData(data, mapping, room)
                  ELSE [consumption |-> 0, supply |-> 0]
    IN  [timestamp |-> timePeriod.timestamp,
         fullTimestamp |-> timePeriod.fullTimestamp,
         period |-> timePeriod.period,
         utcStart |-> timePeriod.utcStart,
         utcEnd |-> timePeriod.utcEnd,
         consumption |-> energy.consumption,
         supply |-> energy.supply]

RECURSIVE InsertByPeriodDescending(_, _)
InsertByPeriodDescending(sorted, e) ==
    IF sorted = <<>> THEN <<e>>
    ELSE IF Head(sorted).period >= e.period
         THEN <<Head(sorted)>> \o InsertByPeriodDescending(Tail(sorted), e)
         ELSE <<e>> \o sorted

RECURSIVE InsertByPeriod(_, _)
InsertByPeriod(sorted, e) ==
    IF sorted = <<>> THEN <<e>>
    ELSE IF Head(sorted).period <= e.period
         THEN <<Head(sorted)>> \o InsertByPeriod(Tail(sorted), e)
         ELSE <<e>> \o sorted

RECURSIVE SortByPeriod(_)
\* results.sort((a, b) => a.period - b.period)
SortByPeriod(rs) ==
    IF rs = <<>> THEN <<>>
    ELSE InsertByPeriod(SortByPeriod(SubSeq(rs, 1, Len(rs) - 1)), rs[Len(rs)])

PromiseAllSettled(q, batch) == \A k \in batch : q[k] \in {"ok", "fail"}

\* await Promise.all(batchPromises) resolves: every query of the batch has.
PromiseAllResolved(q, batch) == \A k \in batch : q[k] = "ok"

\* The loop test and the body up to await Promise.all, q and iss being the
\* states and issue counts of the n bucket queries so far: the queries of
\* the batch that starts at i are issued, or the loop is left.
EnterBatch(c, i, n, q, iss) ==
    /\ batchStart' = [batchStart EXCEPT ![c] = i]
    /\ query' = [query EXCEPT ![c] =
           [k \in 1..n |-> IF i < n /\ k \in BatchIndexes(i, n)
                           THEN "out" ELSE q[k]]]
    /\ issued' = [issued EXCEPT ![c] =
           [k \in 1..n |-> IF i < n /\ k \in BatchIndexes(i, n)
                           THEN iss[k] + 1 ELSE iss[k]]]
    /\ pc' = [pc EXCEPT ![c] = IF i < n THEN "batch" ELSE "finish"]

QueryOkFromCache(c) ==
    \E k \in DOMAIN query[c] :
        /\ query[c][k] = "out"
        /\ query' = [query EXCEPT ![c][k] = "ok"]
        /\ entry' = [entry EXCEPT ![c][k] =
               BucketEntry(timePeriods[c][k],
                           QueryRows(timePeriods[c][k], macFilter[c]),
                           IF metersCache # NoMapping THEN metersCache
                           ELSE mappingData[c],
                           req[c].room)]
        /\ UNCHANGED <<serverVars, pc, req, callNow, mappingData, macFilter,
                       timePeriods, batchStart, issued, results, resp,
                       mapSource, arg, ret>>

\* A bucket query resolves: the rest of the map callback runs.
QueryOk(c) ==
    \E k \in DOMAIN query[c] :
        /\ query[c][k] = "out"
        /\ query' = [query EXCEPT ![c][k] = "ok"]
        /\ entry' = [entry EXCEPT ![c][k] =
               BucketEntry(timePeriods[c][k],
                           QueryRows(timePeriods[c][k], macFilter[c]),
                           mappingData[c], req[c].room)]
        /\ UNCHANGED <<serverVars, pc, req, callNow, mappingData, macFilter,
                       timePeriods, batchStart, issued, results, resp,
                       mapSource, arg, ret>>

\* A bucket query rejects.
QueryFail(c) ==
    \E k \in DOMAIN query[c] :
        /\ query[c][k] = "out"
        /\ Cardinality({j \in DOMAIN query[c] : query[c][j] = "fail"})
               < MaxFailures
        /\ query' = [query EXCEPT ![c][k] = "fail"]
        /\ UNCHANGED <<serverVars, pc, req, callNow,
                       mappingData, macFilter, timePeriods, batchStart, issued,
                       entry, results, resp, mapSource, arg, ret>>

(***************************************************************************)
(* app.get("/api/data") (part_000 542-631)                                 *)
(***************************************************************************)
AnyDateValid(date) == TRUE

\* dayjs(date).isValid()
IsValidDate(date) == date # InvalidDate

BadRequest(message) == [status |-> 400, error |-> message]

MacsOfSomeRoom(roomToMacsMap, room) ==
    IF room \in DOMAIN roomToMacsMap THEN roomToMacsMap[room]
    ELSE IF DOMAIN roomToMacsMap = {} THEN <<>>
    ELSE roomToMacsMap[CHOOSE r \in DOMAIN roomToMacsMap : TRUE]

\* roomToMacsMap[room.toString()] || []
MacsForRoom(roomToMacsMap, room) ==
    IF room \in DOMAIN roomToMacsMap THEN roomToMacsMap[room] ELSE <<>>

NoMetersError(r, mapping) ==
    [status |-> 404, error |-> "No meters found for room"]

\* The response for a room without meters, lines 585-598.
NoMetersResponse(r, mapping) ==
    [status |-> 200,
     data |-> <<>>,
     message |-> "No meters found for room",
     meta |-> [period |-> r.period, room |-> r.room, date |-> r.date,
               totalRecords |-> 0,
               availableRooms |-> DOMAIN mapping.roomToMacsMap]]

\* The report response, lines 612-623.
ReportResponse(result, r, mapping) ==
    [status |-> 200,
     data |-> result,
     meta |-> [period |-> r.period, room |-> r.room, date |-> r.date,
               totalRecords |-> Len(result),
               availableRooms |-> DOMAIN mapping.roomToMacsMap,
               macMappingCount |-> Cardinality(DOMAIN mapping.macToRoomMap)]]

PartialReport(rs, r, mapping) == ReportResponse(SortByPeriod(rs), r, mapping)

\* The response of the catch block, lines 624-630; rs is what the results
\* array held when the failure was caught.
FailureResponse(rs, r, mapping) ==
    [status |-> 500, error |-> "API request failed",
     details |-> "query failed"]

\* The handler up to the await of getMetersMapping.
Request(c, period, room, date) ==
    /\ pc[c] = "idle"
    /\ req' = [req EXCEPT ![c] = [period |-> period, room |-> room,
                                  date |-> date]]
    /\ IF period \notin ValidPeriods
       THEN /\ resp' = [resp EXCEPT ![c] =
                   BadRequest("Invalid period. Use: hour, day, month, or year")]
            /\ pc' = [pc EXCEPT ![c] = "done"]
            /\ UNCHANGED <<callNow, mappingData, mapSource>>
       ELSE IF ~IsValidDate(date)
       THEN /\ resp' = [resp EXCEPT ![c] =
                   BadRequest("Invalid date format. Use YYYY-MM-DD.")]
            /\ pc' = [pc EXCEPT ![c] = "done"]
            /\ UNCHANGED <<callNow, mappingData, mapSource>>
       ELSE /\ CallGetMetersMapping(c)
            /\ UNCHANGED resp
    /\ UNCHANGED <<serverVars, macFilter, timePeriods, batchStart, query,
                   issued, entry, results, arg, ret>>

\* From the mapping to the first batch of getEnergyReadings, lines 567-610
\* and 403-450.
Continue(c) ==
    /\ pc[c] = "gotMapping"
    /\ LET room == req[c].room
           mapping == mappingData[c]
           macsForRoom == MacsForRoom(mapping.roomToMacsMap, room)
       IN  IF room # NoRoom /\ Len(macsForRoom) = 0
           THEN /\ resp' = [resp EXCEPT ![c] = NoMetersResponse(req[c], mapping)]
                /\ pc' = [pc EXCEPT ![c] = "done"]
                /\ UNCHANGED <<macFilter, timePeriods, batchStart, query,
                               issued, entry, results>>
           ELSE LET periods == getTimePeriods(req[c].period, req[c].date)
                    n == Len(periods)
                IN  /\ macFilter' = [macFilter EXCEPT ![c] =
                           IF room # NoRoom
                           THEN [j \in 1..Len(macsForRoom) |->
                                     macsForRoom[j].original]
                           ELSE <<>>]
                    /\ timePeriods' = [timePeriods EXCEPT ![c] = periods]
                    /\ results' = [results EXCEPT ![c] = <<>>]
                    /\ entry' = [entry EXCEPT ![c] = [k \in 1..n |-> NoEntry]]
                    /\ EnterBatch(c, 0, n, [k \in 1..n |-> "none"],
                                  [k \in 1..n |-> 0])
                    /\ UNCHANGED resp
    /\ UNCHANGED <<serverVars, req, callNow, mappingData, mapSource, arg, ret>>

\* Promise.all resolves: the batch is pushed and the loop goes on.
BatchDone(c) ==
    /\ pc[c] = "batch"
    /\ LET n == Len(timePeriods[c])
           i == batchStart[c]
           batch == BatchIndexes(i, n)
       IN  /\ PromiseAllResolved(query[c], batch)
           /\ results' = [results EXCEPT ![c] =
                  results[c] \o [j \in 1..Cardinality(batch) |-> entry[c][i + j]]]
           /\ EnterBatch(c, i + batchSize, n, query[c], issued[c])
    /\ UNCHANGED <<serverVars, req, callNow, mappingData, macFilter,
                   timePeriods, entry, resp, mapSource, arg, ret>>

\* Promise.all rejects: getEnergyReadings rethrows and the handler answers.
BatchFailed(c) ==
    /\ pc[c] = "batch"
    /\ \E k \in BatchIndexes(batchStart[c], Len(timePeriods[c])) :
           query[c][k] = "fail"
    /\ resp' = [resp EXCEPT ![c] =
           FailureResponse(results[c], req[c], mappingData[c])]
    /\ pc' = [pc EXCEPT ![c] = "done"]
    /\ UNCHANGED <<serverVars, req, callNow, mappingData, macFilter,
                   timePeriods, batchStart, query, issued, entry, results,
                   mapSource, arg, ret>>

\* getEnergyReadings returns the sorted results and the handler answers.
Finish(c) ==
    /\ pc[c] = "finish"
    /\ resp' = [resp EXCEPT ![c] =
           ReportResponse(SortByPeriod(results[c]), req[c], mappingData[c])]
    /\ pc' = [pc EXCEPT ![c] = "done"]
    /\ UNCHANGED <<serverVars, req, callNow, mappingData, macFilter,
                   timePeriods, batchStart, query, issued, entry, results,
                   mapSource, arg, ret>>

(***************************************************************************)
(* The server: concurrent /api/data requests over the shared cache         *)
(***************************************************************************)
\* The query parameters the requests of Spec carry.  The year view keeps
\* the number of buckets small; SpecRequest covers a view of two batches.
ReqPeriods == {"year", "week"}
ReqRooms == {NoRoom, "1", "9"}
ReqDates == {<<2023, 6, 16>>, InvalidDate}

IdleRequests ==
    /\ pc = [c \in Clients |-> "idle"]
    /\ req = [c \in Clients |-> NoRequest]
    /\ callNow = [c \in Clients |-> 0]
    /\ mappingData = [c \in Clients |-> NoMapping]
    /\ mapSource = [c \in Clients |-> "none"]
    /\ macFilter = [c \in Clients |-> <<>>]
    /\ timePeriods = [c \in Clients |-> <<>>]
    /\ batchStart = [c \in Clients |-> 0]
    /\ query = [c \in Clients |-> <<>>]
    /\ issued = [c \in Clients |-> <<>>]
    /\ entry = [c \in Clients |-> <<>>]
    /\ results = [c \in Clients |-> <<>>]
    /\ resp = [c \in Clients |-> NoResponse]

\* The module-level state after start-up: let metersCache = null, ...
ServerStarted ==
    /\ now = TickMs
    /\ metersCache = NoMapping
    /\ cacheTimestamp = 0
    /\ loadedAt = 0

Init ==
    /\ ServerStarted
    /\ IdleRequests
    /\ arg = NoEntry
    /\ ret = NoEntry

\* Time passes.
Tick ==
    /\ now < TickMs * (MaxTicks + 1)
    /\ now' = now + TickMs
    /\ UNCHANGED <<metersCache, cacheTimestamp, loadedAt, requestVars,
                   functionVars>>

NewRequest(c) ==
    \E period \in ReqPeriods, room \in ReqRooms, date \in ReqDates :
        Request(c, period, room, date)

\* A request that has been answered, and whose queries have all settled,
\* leaves; its slot takes the next request.
Leave(c) ==
    /\ pc[c] = "done"
    /\ \A k \in DOMAIN query[c] : query[c][k] # "out"
    /\ pc' = [pc EXCEPT ![c] = "idle"]
    /\ req' = [req EXCEPT ![c] = NoRequest]
    /\ callNow' = [callNow EXCEPT ![c] = 0]
    /\ mappingData' = [mappingData EXCEPT ![c] = NoMapping]
    /\ mapSource' = [mapSource EXCEPT ![c] = "none"]
    /\ macFilter' = [macFilter EXCEPT ![c] = <<>>]
    /\ timePeriods' = [timePeriods EXCEPT ![c] = <<>>]
    /\ batchStart' = [batchStart EXCEPT ![c] = 0]
    /\ query' = [query EXCEPT ![c] = <<>>]
    /\ issued' = [issued EXCEPT ![c] = <<>>]
    /\ entry' = [entry EXCEPT ![c] = <<>>]
    /\ results' = [results EXCEPT ![c] = <<>>]
    /\ resp' = [resp EXCEPT ![c] = NoResponse]
    /\ UNCHANGED <<serverVars, functionVars>>

(***************************************************************************)
(* app.get("/api/debug/mappings") (part_000 489-539)                       *)
(***************************************************************************)
\* The handler up to the await of getMetersMapping.
DebugRequest(c) ==
    /\ pc[c] = "idle"
    /\ CallGetMetersMapping(c)
    /\ UNCHANGED <<serverVars, req, macFilter, timePeriods, batchStart, query,
                   issued, entry, results, resp, arg, ret>>

\* The two distinct queries are issued.
DebugContinue(c) ==
    /\ pc[c] = "gotMapping"
    /\ pc' = [pc EXCEPT ![c] = "debugQueries"]
    /\ UNCHANGED <<serverVars, req, callNow, mappingData, macFilter,
                   timePeriods, batchStart, query, issued, entry, results,
                   resp, mapSource, arg, ret>>

\* Both queries resolve: res.json({ mappingData, debug }).
DebugDone(c) ==
    /\ pc[c] = "debugQueries"
    /\ resp' = [resp EXCEPT ![c] =
           [status |-> 200, mappingData |-> mappingData[c]]]
    /\ pc' = [pc EXCEPT ![c] = "done"]
    /\ UNCHANGED <<serverVars, req, callNow, mappingData, macFilter,
                   timePeriods, batchStart, query, issued, entry, results,
                   mapSource, arg, ret>>

\* One of the two queries rejects.
DebugFailed(c) ==
    /\ pc[c] = "debugQueries"
    /\ resp' = [resp EXCEPT ![c] = [status |-> 500, error |-> "query failed"]]
    /\ pc' = [pc EXCEPT ![c] = "done"]
    /\ UNCHANGED <<serverVars, req, callNow, mappingData, macFilter,
                   timePeriods, batchStart, query, issued, entry, results,
                   mapSource, arg, ret>>

Next ==
    \/ Tick
    \/ \E c \in DataClients : NewRequest(c)
    \/ \E c \in DebugClients : DebugRequest(c)
    \/ \E c \in Clients : MetersQueryOk(c)
    \/ \E c \in Clients : MetersQueryFail(c)
    \/ \E c \in DataClients : Continue(c)
    \/ \E c \in DataClients : QueryOk(c)
    \/ \E c \in DataClients : QueryFail(c)
    \/ \E c \in DataClients : BatchDone(c)
    \/ \E c \in DataClients : BatchFailed(c)
    \/ \E c \in DataClients : Finish(c)
    \/ \E c \in DebugClients : DebugContinue(c)
    \/ \E c \in DebugClients : DebugDone(c)
    \/ \E c \in DebugClients : DebugFailed(c)
    \/ \E c \in Clients : Leave(c)

Spec == Init /\ [][Next]_vars

(***************************************************************************)
(* One /api/data request on its own, with views of more than one batch     *)
(***************************************************************************)
\* The requests of SpecRequest: 12 buckets (batches of 10 and 2), 1 bucket
\* with a room, and no bucket.
WideRequests ==
    { [period |-> "month", room |-> NoRoom, date |-> <<2023, 6, 16>>],
      [period |-> "year", room |-> "1", date |-> <<2023, 6, 16>>],
      [period |-> "year", room |-> NoRoom, date |-> <<2022, 6, 16>>] }

WideRequest(c) ==
    \E r \in WideRequests : Request(c, r.period, r.room, r.date)

NextRequest ==
    \/ \E c \in DataClients : WideRequest(c)
    \/ \E c \in DataClients : MetersQueryOk(c)
    \/ \E c \in DataClients : MetersQueryFail(c)
    \/ \E c \in DataClients : Continue(c)
    \/ \E c \in DataClients : QueryOk(c)
    \/ \E c \in DataClients : QueryFail(c)
    \/ \E c \in DataClients : BatchDone(c)
    \/ \E c \in DataClients : BatchFailed(c)
    \/ \E c \in DataClients : Finish(c)

SpecRequest == Init /\ [][NextRequest]_vars

(***************************************************************************)
(* One /api/data request whose storage queries all succeed, in each of the *)
(* four views                                                              *)
(***************************************************************************)
\* 24, 30, 12 and 2 buckets, for all rooms and for room 1.
ReportRequests ==
    { [period |-> p, room |-> r, date |-> <<2023, 6, 16>>] :
        p \in {"hour", "day", "month"}, r \in {NoRoom, "1"} }
    \cup { [period |-> "year", room |-> r, date |-> <<2024, 2, 29>>] :
             r \in {NoRoom, "1"} }

ReportRequest(c) ==
    \E r \in ReportRequests : Request(c, r.period, r.room, r.date)

NextReport ==
    \/ \E c \in DataClients : ReportRequest(c)
    \/ \E c \in DataClients : MetersQueryOk(c)
    \/ \E c \in DataClients : Continue(c)
    \/ \E c \in DataClients : QueryOk(c)
    \/ \E c \in DataClients : BatchDone(c)
    \/ \E c \in DataClients : Finish(c)

SpecReport == Init /\ [][NextReport]_vars

(***************************************************************************)
(* A report of two buckets next to the other caller of getMetersMapping,   *)
(* whose loads replace the cache while the report is being computed        *)
(***************************************************************************)
\* The year view of 2024 (buckets 2023 and 2024), for all rooms and for the
\* rooms 1 and 2, whose devices differ between the two meter responses.
RefreshRequests ==
    { [period |-> "year", room |-> r, date |-> <<2024, 2, 29>>] :
        r \in {NoRoom, "1", "2"} }

RefreshRequest(c) ==
    \E r \in RefreshRequests : Request(c, r.period, r.room, r.date)

NextRefresh ==
    \/ Tick
    \/ \E c \in DataClients : RefreshRequest(c)
    \/ \E c \in DebugClients : DebugRequest(c)
    \/ \E c \in Clients : MetersQueryOk(c)
    \/ \E c \in DataClients : Continue(c)
    \/ \E c \in DataClients : QueryOk(c)
    \/ \E c \in DataClients : BatchDone(c)
    \/ \E c \in DataClients : Finish(c)
    \/ \E c \in DebugClients : DebugContinue(c)
    \/ \E c \in DebugClients : DebugDone(c)
    \/ \E c \in Clients : Leave(c)

SpecRefresh == Init /\ [][NextRefresh]_vars

(***************************************************************************)
(* calculateEnergyFromInfluxData on its own                                *)
(***************************************************************************)
\* The longest list of rows handed to the function.
MaxRows == 4

T1 == <<2025, 6, 16, 2, 0>>
T2 == <<2025, 6, 16, 2, 1800000>>
T3 == <<2025, 6, 16, 2, 3540000>>

\* The rows a bucket query may hold: three meters, readings that rise and
\* fall, in thousandths and in fractions of a thousandth of a kWh.
CalcRows ==
    { Reading(MacA, T1, 10), Reading(MacA, T2, 50), Reading(MacA, T3, 24),
      Reading(SupplyMac, T1, 100), Reading(SupplyMac, T2, 60),
      Reading(SupplyMac, T3, 186),
      Reading(MacB, T1, 20), Reading(MacB, T2, 36) }

CalcMappings == {BuildMapping(rows) : rows \in MeterResponses}
CalcRooms == {NoRoom, "1"}

\* The end-to-end scenario: macA 5.0 then 7.5, the supply meter 50.0 then
\* 58.0, mapping macA -> room 1 and macB -> room 2, all rooms.
ScenarioData ==
    << Reading(MacA, T1, 50000), Reading(MacA, T3, 75000),
       Reading(SupplyMac, T1, 500000), Reading(SupplyMac, T3, 580000) >>
ScenarioMapping ==
    BuildMapping(<< [meter_mac |-> MacA, room_id |-> "1", _time |-> T1],
                    [meter_mac |-> MacB, room_id |-> "2", _time |-> T1] >>)
Scenario ==
    [data |-> ScenarioData, mapping |-> ScenarioMapping, room |-> NoRoom]

\* A bucket in which meter A and the supply meter roll over while meter B
\* advances: macA 5.0 then 4.0, macB 2.0 then 5.0, supply 58.0 then 50.0.
RolloverData ==
    << Reading(MacA, T1, 50000), Reading(MacA, T3, 40000),
       Reading(MacB, T1, 20000), Reading(MacB, T3, 50000),
       Reading(SupplyMac, T1, 580000), Reading(SupplyMac, T3, 500000) >>
Rollover ==
    [data |-> RolloverData, mapping |-> ScenarioMapping, room |-> NoRoom]

\* The results of a bucket query: up to MaxRows distinct rows in any order.
CalcData ==
    UNION { {d \in [1..n -> CalcRows] :
                \A i \in 1..n, j \in 1..n : d[i] = d[j] => i = j} :
            n \in 0..MaxRows }

CalcInputs ==
    { [data |-> d, mapping |-> m, room |-> r] :
        d \in CalcData, m \in CalcMappings, r \in CalcRooms }
    \cup {Scenario, Rollover}

InitCalc ==
    /\ ServerStarted
    /\ IdleRequests
    /\ arg \in CalcInputs
    /\ ret = NoEntry

ApplyCalc ==
    /\ ret = NoEntry
    /\ ret' = calculateEnergyFromInfluxData(arg.data, arg.mapping, arg.room)
    /\ UNCHANGED <<serverVars, requestVars, arg>>

NextCalc == ApplyCalc

SpecCalc == InitCalc /\ [][NextCalc]_vars

(***************************************************************************)
(* calculateEnergyFromInfluxData on rows that share a timestamp            *)
(***************************************************************************)
\* Readings of meter A stored under two spellings of its mac_address tag,
\* hence in two series, which normalizeMacAddress puts into one group: two
\* of them at T1 and two at T3. The supply meter has one series.
TieRows ==
    { Reading(MacA, T1, 10), Reading(MacALower, T1, 30),
      Reading(MacA, T3, 50), Reading(MacALower, T3, 80),
      Reading(SupplyMac, T1, 100), Reading(SupplyMac, T3, 186) }

\* Up to MaxRows distinct rows of TieRows in any order.
TieData ==
    UNION { {d \in [1..n -> TieRows] :
                \A i \in 1..n, j \in 1..n : d[i] = d[j] => i = j} :
            n \in 0..MaxRows }

TieInputs ==
    { [data |-> d, mapping |-> ScenarioMapping, room |-> r] :
        d \in TieData, r \in CalcRooms }

InitTies ==
    /\ ServerStarted
    /\ IdleRequests
    /\ arg \in TieInputs
    /\ ret = NoEntry

NextTies == ApplyCalc

SpecTies == InitTies /\ [][NextTies]_vars

(***************************************************************************)
(* The period generator stage on its own: buildDateRangeQuery and          *)
(* getTimePeriods, as lines 572 and 402 call them                          *)
(***************************************************************************)
\* The dates run over the years 2022 .. 2022 + MaxYears.
MaxYears == 3

PeriodYears == {2022 + k : k \in 0..MaxYears}

\* The first, the fifteenth and the last day of every month.
PeriodDates ==
    { x \in PeriodYears \X (1..12) \X (1..31) :
        x[3] \in {1, 15, DaysInMonth(x[1], x[2])} }

PeriodInputs ==
    { [period |-> p, date |-> d] :
        p \in ValidPeriods \cup {"week"}, d \in PeriodDates }

InitPeriods ==
    /\ ServerStarted
    /\ IdleRequests
    /\ arg \in PeriodInputs
    /\ ret = NoEntry

\* Neither function throws: both return.
ApplyPeriods ==
    /\ ret = NoEntry
    /\ ret' = [dateRange |-> buildDateRangeQuery(arg.period, arg.date),
               timePeriods |-> getTimePeriods(arg.period, arg.date)]
    /\ UNCHANGED <<serverVars, requestVars, arg>>

NextPeriods == ApplyPeriods

SpecPeriods == InitPeriods /\ [][NextPeriods]_vars

(***************************************************************************)
(* One /api/data request for the year view, from the year before the       *)
(* first bucket on                                                         *)
(***************************************************************************)
\* The first day, a day in the middle and the last day of each year.
YearRequests ==
    { [period |-> "year", room |-> r, date |-> <<y, d[1], d[2]>>] :
        y \in PeriodYears, d \in {<<1, 1>>, <<6, 16>>, <<12, 31>>},
        r \in {NoRoom, "1", "2"} }

YearRequest(c) ==
    \E r \in YearRequests : Request(c, r.period, r.room, r.date)

NextYears ==
    \/ \E c \in DataClients : YearRequest(c)
    \/ \E c \in DataClients : MetersQueryOk(c)
    \/ \E c \in DataClients : Continue(c)
    \/ \E c \in DataClients : QueryOk(c)
    \/ \E c \in DataClients : BatchDone(c)
    \/ \E c \in DataClients : Finish(c)

SpecYears == Init /\ [][NextYears]_vars

(***************************************************************************)
(* normalizeMacAddress on its own                                          *)
(***************************************************************************)
\* The longest of the short strings handed to the function.
MaxMacLen == 3

MacChars == {"A", "a", "0", ":", "-", " "}

\* One address in its colon-delimited upper-case, hyphen-delimited
\* lower-case and undelimited forms.
FormColonUpper ==
    <<"A","A",":","B","B",":","C","C",":","D","D",":","E","E",":","F","F">>
FormHyphenLower ==
    <<"a","a","-","b","b","-","c","c","-","d","d","-","e","e","-","f","f">>
FormPlain == <<"a","a","b","b","c","c","d","d","e","e","f","f">>

MacInputs ==
    UNION {[1..n -> MacChars] : n \in 0..MaxMacLen}
        \cup {Null, FormColonUpper, FormHyphenLower, FormPlain}

InitNormalize ==
    /\ ServerStarted
    /\ IdleRequests
    /\ arg \in {[mac |-> x] : x \in MacInputs}
    /\ ret = NoEntry

\* The function applied once, and applied to its own result.
ApplyNormalize ==
    /\ ret = NoEntry
    /\ ret' = [once |-> normalizeMacAddress(arg.mac),
               twice |-> normalizeMacAddress(normalizeMacAddress(arg.mac))]
    /\ UNCHANGED <<serverVars, requestVars, arg>>

NextNormalize == ApplyNormalize

SpecNormalize == InitNormalize /\ [][NextNormalize]_vars

(***************************************************************************)
(* The mapping builder of getMetersMapping on its own (lines 115-159)      *)
(***************************************************************************)
\* The longest response of the meters query handed to the builder.
MaxMeterRows == 3

\* The query groups by the meter_mac tag and keeps the last point of each
\* group: a response holds one row per spelling of meter_mac, in an order
\* the storage decides, each with the room and the time of its last point.
\* Meter A is on record under two spellings.
MeterMacs == {MacA, MacALower, MacB}
MeterRooms == {"1", "2", Undefined}
MeterTimes == {<<2023, 1, 5, 0, 0>>, <<2024, 1, 5, 0, 0>>}

MeterRowSet ==
    { [meter_mac |-> m, room_id |-> r, _time |-> t] :
        m \in MeterMacs, r \in MeterRooms, t \in MeterTimes }

MappingInputs ==
    UNION { {rows \in [1..n -> MeterRowSet] :
                \A i \in 1..n, j \in 1..n :
                    rows[i].meter_mac = rows[j].meter_mac => i = j} :
            n \in 0..MaxMeterRows }

InitMapping ==
    /\ ServerStarted
    /\ IdleRequests
    /\ arg \in {[rows |-> rows] : rows \in MappingInputs}
    /\ ret = NoEntry

ApplyMapping ==
    /\ ret = NoEntry
    /\ ret' = BuildMapping(arg.rows)
    /\ UNCHANGED <<serverVars, requestVars, arg>>

NextMapping == ApplyMapping

SpecMapping == InitMapping /\ [][NextMapping]_vars

(***************************************************************************)
(* One /api/data request over any response of the meters query, from the   *)
(* load of the mapping to the report                                       *)
(***************************************************************************)
FilterRequests ==
    { [period |-> "year", room |-> r, date |-> <<2023, 6, 16>>] :
        r \in {NoRoom, "1", "2"} }

FilterRequest(c) ==
    \E r \in FilterRequests : Request(c, r.period, r.room, r.date)

\* queryApi.collectRows resolves with any of the responses of MappingInputs.
MetersQueryOkAny(c) == \E rows \in MappingInputs : MetersLoad(c, rows)

NextFilter ==
    \/ \E c \in DataClients : FilterRequest(c)
    \/ \E c \in DataClients : MetersQueryOkAny(c)
    \/ \E c \in DataClients : Continue(c)
    \/ \E c \in DataClients : QueryOk(c)
    \/ \E c \in DataClients : BatchDone(c)
    \/ \E c \in DataClients : Finish(c)

SpecFilter == Init /\ [][NextFilter]_vars

(***************************************************************************)
(* The two earlier backends (part_001): the search-index variant, lines    *)
(* 1-469, and the first time-series variant, lines 471-935                 *)
(***************************************************************************)
\* const normalizeMacAddress = (mac) => mac.toLowerCase()  (68 and 541)
LegacyNormalizeMacAddress(mac) == LowerAll(mac)

\* The map built by both getMetersMapping of part_001 (94-100, 569-575):
\* keyed by the lower-cased meter_mac, rows without a room skipped.
RECURSIVE LegacyBuildMapping(_)
LegacyBuildMapping(rows) ==
    IF rows = <<>> THEN <<>>
    ELSE LET row == rows[Len(rows)]
             before == LegacyBuildMapping(SubSeq(rows, 1, Len(rows) - 1))
         IN  IF Falsy(row.meter_mac) \/ row.room_id \in {Undefined, ""}
             THEN before
             ELSE Put(before, LegacyNormalizeMacAddress(row.meter_mac),
                      row.room_id)

\* The classification shared by the two functions (196-211, 672-687);
\* SUPPLY_MAC_NORMALIZED is compared as it is written.
LegacyIsSupplyMac(normalizedMac) == normalizedMac = SUPPLY_MAC_NORMALIZED

LegacyAddsToConsumption(normalizedMac, macToRoomMap, room) ==
    IF LegacyIsSupplyMac(normalizedMac) THEN FALSE
    ELSE IF room # NoRoom
    THEN /\ normalizedMac \in DOMAIN macToRoomMap
         /\ macToRoomMap[normalizedMac] = room
    ELSE normalizedMac \in DOMAIN macToRoomMap

\* The keys of macGroups of part_001 (652-658): mac_address as it is spelled.
LegacyGroupKeys(data) == {data[i].mac_address : i \in 1..Len(data)}

LegacyGroup(data, macAddress) ==
    SelectSeq(data, LAMBDA row : row.mac_address = macAddress)

\* calculateEnergyFromInfluxData of part_001 (647-694)
LegacyCalculateEnergyFromInfluxData(data, macToRoomMap, room) ==
    LET groups == {k \in LegacyGroupKeys(data) : Len(LegacyGroup(data, k)) >= 2}
        delta == [k \in groups |-> EnergyDelta(LegacyGroup(data, k))]
        consumptionEnergy ==
            SumOver({k \in groups :
                        LegacyAddsToConsumption(LegacyNormalizeMacAddress(k),
                                                macToRoomMap, room)}, delta)
        supplyEnergy ==
            SumOver({k \in groups :
                        LegacyIsSupplyMac(LegacyNormalizeMacAddress(k))}, delta)
    IN  [consumption |-> ClampedTotal(consumptionEnergy),
         supply |-> ClampedTotal(supplyEnergy)]

\* The by_mac aggregation of buildEsQuery (154-177) over the readings of one
\* bucket: one bucket per spelling of mac_address, with the top hit by
\* ascending and by descending log_datetime.
EsBuckets(data) ==
    { [key |-> k,
       first_energy |-> SortByTime(LegacyGroup(data, k))[1],
       last_energy |->
           SortByTime(LegacyGroup(data, k))[Len(LegacyGroup(data, k))]] :
        k \in LegacyGroupKeys(data) }

\* calculateEnergyFromBuckets (182-219)
calculateEnergyFromBuckets(buckets, macToRoomMap, room) ==
    LET energyDelta ==
            [b \in buckets |-> b.last_energy._value - b.first_energy._value]
        consumptionEnergy ==
            SumOver({b \in buckets :
                        LegacyAddsToConsumption(LegacyNormalizeMacAddress(b.key),
                                                macToRoomMap, room)},
                    energyDelta)
        supplyEnergy ==
            SumOver({b \in buckets :
                        LegacyIsSupplyMac(LegacyNormalizeMacAddress(b.key))},
                    energyDelta)
    IN  [consumption |-> ClampedTotal(consumptionEnergy),
         supply |-> ClampedTotal(supplyEnergy)]

(***************************************************************************)
(* The three aggregators on the same readings, meters table and room       *)
(***************************************************************************)
\* Spellings of meter A and of the supply meter: colon-delimited in upper
\* and in lower case, hyphen-delimited, and without delimiters.
MeterASpellings ==
    { <<"A","A",":","0","1">>, <<"a","a",":","0","1">>,
      <<"A","A","-","0","1">>, <<"a","a","0","1">> }

SupplySpellings ==
    { SupplyMac, SUPPLY_MAC_NORMALIZED,
      <<"0","8","-","f","9","-","e","0","-","7","3","-","6","4","-","d","b">>,
      <<"0","8","f","9","e","0","7","3","6","4","d","b">> }

\* Meter A 5.0 then 7.5 and the supply meter 50.0 then 58.0, each reading
\* under any spelling of its device.
VariantData ==
    { << Reading(a1, T1, 50000), Reading(a2, T3, 75000),
         Reading(s1, T1, 500000), Reading(s2, T3, 580000) >> :
        a1 \in MeterASpellings, a2 \in MeterASpellings,
        s1 \in SupplySpellings, s2 \in SupplySpellings }

\* The meters table: meter A in room 1 under any spelling, meter B in room 2.
VariantMeters ==
    { << [meter_mac |-> a, room_id |-> "1", _time |-> T1],
         [meter_mac |-> MacB, room_id |-> "2", _time |-> T1] >> :
        a \in MeterASpellings }

VariantInputs ==
    { [data |-> d, meters |-> m, room |-> r] :
        d \in VariantData, m \in VariantMeters, r \in {NoRoom, "1", "2"} }

InitVariants ==
    /\ ServerStarted
    /\ IdleRequests
    /\ arg \in VariantInputs
    /\ ret = NoEntry

\* Each backend aggregates the readings under the map it builds itself from
\* the meters table.
ApplyVariants ==
    /\ ret = NoEntry
    /\ ret' =
           [influx |->
                calculateEnergyFromInfluxData(arg.data,
                    BuildMapping(arg.meters), arg.room),
            legacyInflux |->
                LegacyCalculateEnergyFromInfluxData(arg.data,
                    LegacyBuildMapping(arg.meters), arg.room),
            buckets |->
                calculateEnergyFromBuckets(EsBuckets(arg.data),
                    LegacyBuildMapping(arg.meters), arg.room)]
    /\ UNCHANGED <<serverVars, requestVars, arg>>

NextVariants == ApplyVariants

SpecVariants == InitVariants /\ [][NextVariants]_vars

(***************************************************************************)
(* Reference definitions for the properties, written from the statements   *)
(* and not from the operators above                                        *)
(***************************************************************************)
EmptyMaps ==
    [macToRoomMap |-> <<>>, roomToMacsMap |-> <<>>, originalMacFormats |-> <<>>]

SupplyNormalized == <<"0","8","f","9","e","0","7","3","6","4","d","b">>

\* The forward map of a storage response: per device, the room of its last row.
RefForward(rows) ==
    [m \in {normalizeMacAddress(rows[i].meter_mac) : i \in 1..Len(rows)} |->
        LET last == CHOOSE i \in 1..Len(rows) :
                       /\ normalizeMacAddress(rows[i].meter_mac) = m
                       /\ \A j \in (i + 1)..Len(rows) :
                              normalizeMacAddress(rows[j].meter_mac) # m
        IN  rows[last].room_id]

\* The reverse index of a storage response: per room, its rows in order.
RefReverse(rows) ==
    [r \in {rows[i].room_id : i \in 1..Len(rows)} |->
        LET own == SelectSeq(rows, LAMBDA row : row.room_id = r)
        IN  [j \in 1..Len(own) |->
                [normalized |-> normalizeMacAddress(own[j].meter_mac),
                 original |-> own[j].meter_mac]]]

\* The forward map and the reverse index of each storage response.
RefSnapshots ==
    { [macToRoomMap |-> RefForward(rows), roomToMacsMap |-> RefReverse(rows)] :
        rows \in MeterResponses }

\* m is the empty mapping, or both of its maps come from one response.
IsSnapshot(m) ==
    \/ m = EmptyMaps
    \/ [macToRoomMap |-> m.macToRoomMap, roomToMacsMap |-> m.roomToMacsMap]
           \in RefSnapshots

\* The rows of device m in data.
RefIdx(data, m) ==
    {i \in 1..Len(data) : normalizeMacAddress(data[i].mac_address) = m}

RefDevices(data) ==
    {normalizeMacAddress(data[i].mac_address) : i \in 1..Len(data)}

RefEarliest(data, m) ==
    CHOOSE i \in RefIdx(data, m) :
        \A j \in RefIdx(data, m) : ~IsBefore(data[j]._time, data[i]._time)

RefLatest(data, m) ==
    CHOOSE i \in RefIdx(data, m) :
        \A j \in RefIdx(data, m) : ~IsBefore(data[i]._time, data[j]._time)

\* Latest value minus earliest value of device m.
RefDelta(data, m) ==
    data[RefLatest(data, m)]._value - data[RefEarliest(data, m)]._value

\* The devices whose delta counts as consumption.
RefCounted(data, mapping, room) ==
    {m \in RefDevices(data) :
        /\ Cardinality(RefIdx(data, m)) >= 2
        /\ m # SupplyNormalized
        /\ m \in DOMAIN mapping.macToRoomMap
        /\ room # NoRoom => mapping.macToRoomMap[m] = room}

RefConsumptionSum(data, mapping, room) ==
    SumOver(RefCounted(data, mapping, room),
            [m \in RefCounted(data, mapping, room) |-> RefDelta(data, m)])

RefSupplySum(data) ==
    IF Cardinality(RefIdx(data, SupplyNormalized)) >= 2
    THEN RefDelta(data, SupplyNormalized) ELSE 0

RefMax0(x) == IF x < 0 THEN 0 ELSE x

\* x to the nearest thousandth of a kWh (a multiple of 10 units).
RefRound3(x) == CHOOSE r \in (x - 5)..(x + 5) : r % 10 = 0

\* data without the rows of devices with one reading and without the rows
\* that lie strictly between a device's earliest and latest timestamps.
EndpointsOnly(data) ==
    SelectSeq(data,
        LAMBDA r :
            LET m == normalizeMacAddress(r.mac_address)
            IN  /\ Cardinality(RefIdx(data, m)) >= 2
                /\ \/ r._time = data[RefEarliest(data, m)]._time
                   \/ r._time = data[RefLatest(data, m)]._time)

WithoutSupply(data) ==
    SelectSeq(data,
        LAMBDA r : normalizeMacAddress(r.mac_address) # SupplyNormalized)

OnlySupply(data) ==
    SelectSeq(data,
        LAMBDA r : normalizeMacAddress(r.mac_address) = SupplyNormalized)

(***************************************************************************)
(* Properties                                                              *)
(***************************************************************************)
FailedQueries(c) == {k \in DOMAIN query[c] : query[c][k] = "fail"}

\* C1 (SpecRequest): once a bucket query of a request has failed, the
\* request never reaches the report; when it has been answered, the answer
\* is the server error 500 and carries no data field.
C1_FailedBucketGivesServerError ==
    \A c \in DataClients :
        FailedQueries(c) # {} =>
            /\ pc[c] \in {"batch", "done"}
            /\ pc[c] = "done" =>
                   /\ resp[c].status = 500
                   /\ "data" \notin DOMAIN resp[c]

\* The failure came in the second batch, after the ten buckets of the first
\* batch had been pushed to results.
C1_Witness ==
    \E c \in DataClients :
        /\ pc[c] = "done"
        /\ resp[c].status = 500
        /\ Len(results[c]) = 10
        /\ \E k \in FailedQueries(c) : k > 10

\* C2 (SpecRequest): at most 10 bucket queries of a request are outstanding;
\* the queries issued so far are a prefix of the buckets made of whole
\* batches of 10 (the last one possibly shorter); and a query is issued only
\* when every query of the batches before it has completed.
C2_BatchesOfTen ==
    \A c \in DataClients :
        LET q == query[c]
            Issued == {k \in DOMAIN q : q[k] # "none"}
            BatchNo(k) == (k - 1) \div 10
        IN  /\ Cardinality({k \in DOMAIN q : q[k] = "out"}) <= 10
            /\ \A k \in Issued : \A j \in DOMAIN q :
                   /\ j < k => j \in Issued
                   /\ BatchNo(j) = BatchNo(k) => j \in Issued
                   /\ BatchNo(j) < BatchNo(k) => q[j] \in {"ok", "fail"}

\* The second batch is outstanding.
C2_Witness ==
    \E c \in DataClients :
        /\ pc[c] = "batch"
        /\ batchStart[c] = 10
        /\ 11 \in DOMAIN query[c]
        /\ query[c][11] = "out"

\* A step in which c calls getMetersMapping.
CallsGetMetersMapping(c) ==
    pc[c] = "idle" /\ pc'[c] \in {"gotMapping", "fetchMapping"}

\* C3 as stated: a call made while a cached mapping exists and less than 5
\* minutes have passed since the rows of the last successful load arrived
\* returns the cached mapping and issues no storage query.
C3_Original ==
    [][\A c \in Clients :
          (/\ CallsGetMetersMapping(c)
           /\ metersCache # NoMapping
           /\ now - loadedAt < 5 * 60 * 1000)
          => /\ pc'[c] = "gotMapping"
             /\ mappingData'[c] = metersCache]_vars

\* C3 as amended: a call made while a cached mapping exists and less than 5
\* minutes have passed since the start of the call that loaded it (the
\* instant kept in cacheTimestamp) returns the cached mapping, issues no
\* storage query and leaves the cache as it is.
C3_CachedWithinWindow ==
    [][\A c \in Clients :
          (/\ CallsGetMetersMapping(c)
           /\ metersCache # NoMapping
           /\ cacheTimestamp > 0
           /\ now - cacheTimestamp < 5 * 60 * 1000)
          => /\ pc'[c] = "gotMapping"
             /\ mappingData'[c] = metersCache
             /\ UNCHANGED <<metersCache, cacheTimestamp>>]_vars

\* A call was answered from a cache that was loaded some time before.
C3_Witness ==
    \E c \in Clients :
        /\ pc[c] = "gotMapping"
        /\ mapSource[c] = "cache"
        /\ callNow[c] > cacheTimestamp
        /\ mappingData[c] = metersCache

\* C4 (Spec): when the meters query of a call fails, the call returns to its
\* caller (it does not throw) with the cached mapping if there is one and
\* with the empty mapping otherwise.
C4_FailOpen ==
    [][\A c \in Clients :
          (pc[c] = "fetchMapping" /\ mapSource'[c] = "fallback")
          => /\ pc'[c] = "gotMapping"
             /\ mappingData'[c] =
                    IF metersCache # NoMapping THEN metersCache ELSE EmptyMaps]_vars

\* A failed refresh of an expired cache returned the previous mapping.
C4_Witness ==
    \E c \in Clients :
        /\ pc[c] = "gotMapping"
        /\ mapSource[c] = "fallback"
        /\ mappingData[c] # EmptyMaps
        /\ callNow[c] - cacheTimestamp >= 5 * 60 * 1000

\* C5 (Spec): the cache, and every mapping a caller holds or has been sent,
\* is the empty mapping or has its forward map and its reverse index built
\* from one and the same storage response.
C5_CompleteSnapshots ==
    /\ metersCache # NoMapping => IsSnapshot(metersCache)
    /\ \A c \in Clients :
           /\ mappingData[c] # NoMapping => IsSnapshot(mappingData[c])
           /\ "mappingData" \in DOMAIN resp[c] => IsSnapshot(resp[c].mappingData)

\* Two calls in progress at once hold snapshots of two different responses.
C5_Witness ==
    \E c \in Clients, d \in Clients :
        /\ c # d
        /\ pc[c] \notin {"idle", "done"}
        /\ pc[d] \notin {"idle", "done"}
        /\ mapSource[c] = "load"
        /\ mapSource[d] = "load"
        /\ mappingData[c] # mappingData[d]

\* C6 as stated: a request whose mapping refresh failed is answered with a
\* successful response.
C6_Original ==
    \A c \in DataClients :
        (mapSource[c] = "fallback" /\ pc[c] = "done") => resp[c].status = 200

\* C6 as amended: a request whose mapping refresh failed is answered with a
\* successful response unless one of its own bucket queries fails (then the
\* answer is the server error of that failure); the successful response is
\* computed from the mapping the failed refresh fell back to.
C6_MappingFailureNotSurfaced ==
    \A c \in DataClients :
        (mapSource[c] = "fallback" /\ pc[c] = "done") =>
            /\ resp[c].status \in {200, 500}
            /\ resp[c].status = 500 => FailedQueries(c) # {}
            /\ resp[c].status = 200 =>
                   /\ FailedQueries(c) = {}
                   /\ IsSnapshot(mappingData[c])
                   /\ resp[c].meta.availableRooms =
                          DOMAIN mappingData[c].roomToMacsMap

\* A report was computed from the last-known-good mapping after the refresh
\* had failed.
C6_Witness ==
    \E c \in DataClients :
        /\ mapSource[c] = "fallback"
        /\ pc[c] = "done"
        /\ resp[c].status = 200
        /\ mappingData[c] # EmptyMaps
        /\ Len(resp[c].data) > 0

\* The result of the function on other rows with the same mapping and room.
CalcOn(data) == calculateEnergyFromInfluxData(data, arg.mapping, arg.room)

\* C7 (SpecCalc): the delta of every device group is the value at its latest
\* timestamp minus the value at its earliest timestamp; the result is the
\* same when the readings between the two and the devices with fewer than 2
\* readings are taken out, so neither adds anything to consumption or supply.
C7_DeltaIsLatestMinusEarliest ==
    ret # NoEntry =>
        /\ \A m \in RefDevices(arg.data) :
               Cardinality(RefIdx(arg.data, m)) >= 2 =>
                   EnergyDelta(MacGroup(arg.data, m)) = RefDelta(arg.data, m)
        /\ ret = CalcOn(EndpointsOnly(arg.data))

\* A counted device with three readings given out of time order, the middle
\* one the highest, next to a device with a single reading.
C7_Witness ==
    /\ ret # NoEntry
    /\ ret.consumption > 0
    /\ \E m \in RefDevices(arg.data) :
           LET g == MacGroup(arg.data, m)
           IN  /\ Len(g) = 3
               /\ IsBefore(g[3]._time, g[1]._time)
               /\ \E i \in 1..3 : g[i]._value > g[1]._value
                                  /\ g[i]._value > g[3]._value
    /\ \E m \in RefDevices(arg.data) : Cardinality(RefIdx(arg.data, m)) = 1

\* C8 (SpecCalc): consumption is what it is without the rows of the supply
\* device, and supply is what the rows of the supply device alone give; the
\* supply device alone gives no consumption, the other devices no supply.
C8_SupplyNeverConsumption ==
    ret # NoEntry =>
        LET others == CalcOn(WithoutSupply(arg.data))
            alone == CalcOn(OnlySupply(arg.data))
        IN  /\ ret.consumption = others.consumption
            /\ ret.supply = alone.supply
            /\ alone.consumption = 0
            /\ others.supply = 0

\* The supply device has a positive delta and is mapped to the requested room.
C8_Witness ==
    /\ ret # NoEntry
    /\ arg.room # NoRoom
    /\ SupplyNormalized \in DOMAIN arg.mapping.macToRoomMap
    /\ arg.mapping.macToRoomMap[SupplyNormalized] = arg.room
    /\ RefSupplySum(arg.data) > 0
    /\ ret.supply > 0

\* C9 (SpecCalc): consumption and supply are never negative, and a category
\* whose deltas sum to a negative number is reported as exactly 0.
C9_NeverNegative ==
    ret # NoEntry =>
        /\ ret.consumption >= 0
        /\ ret.supply >= 0
        /\ RefConsumptionSum(arg.data, arg.mapping, arg.room) < 0
               => ret.consumption = 0
        /\ RefSupplySum(arg.data) < 0 => ret.supply = 0

\* Both categories roll over.
C9_Witness ==
    /\ ret # NoEntry
    /\ RefConsumptionSum(arg.data, arg.mapping, arg.room) < 0
    /\ RefSupplySum(arg.data) < 0
    /\ ret = [consumption |-> 0, supply |-> 0]

\* C10 as stated: with no room filter, consumption is max(0, the sum of the
\* deltas of the mapped non-supply devices with at least 2 readings) and
\* supply is max(0, the delta of the supply device).
C10_Original ==
    (ret # NoEntry /\ arg.room = NoRoom) =>
        /\ ret.consumption =
               RefMax0(RefConsumptionSum(arg.data, arg.mapping, NoRoom))
        /\ ret.supply = RefMax0(RefSupplySum(arg.data))

\* C10 as amended: with no room filter, consumption is max(0, the sum of the
\* deltas of the mapped non-supply devices with at least 2 readings, rounded
\* to 3 decimals) and supply is max(0, the delta of the supply device,
\* rounded to 3 decimals); unmapped devices add nothing.  macA 5.0 then 7.5
\* and supply 50.0 then 58.0 give consumption 2.5 and supply 8.0.
C10_AllRoomsTotals ==
    (ret # NoEntry /\ arg.room = NoRoom) =>
        /\ ret.consumption =
               RefMax0(RefRound3(RefConsumptionSum(arg.data, arg.mapping, NoRoom)))
        /\ ret.supply = RefMax0(RefRound3(RefSupplySum(arg.data)))
        /\ arg = Scenario => ret = [consumption |-> 25000, supply |-> 80000]

\* All rooms: a mapped device is counted next to an unmapped device that has
\* a delta of its own.
C10_Witness ==
    /\ ret # NoEntry
    /\ arg.room = NoRoom
    /\ ret.consumption > 0
    /\ RefCounted(arg.data, arg.mapping, NoRoom) # {}
    /\ \E m \in RefDevices(arg.data) :
           /\ m # SupplyNormalized
           /\ m \notin DOMAIN arg.mapping.macToRoomMap
           /\ Cardinality(RefIdx(arg.data, m)) >= 2
           /\ RefDelta(arg.data, m) # 0

\* The rows of the devices that the mapping puts in room r.
RowsOfRoom(data, mapping, r) ==
    SelectSeq(data,
        LAMBDA row :
            LET m == normalizeMacAddress(row.mac_address)
            IN  /\ m \in DOMAIN mapping.macToRoomMap
                /\ mapping.macToRoomMap[m] = r)

\* C11 (SpecCalc): with a room filter r, consumption is made of the deltas
\* of the non-supply devices whose mapped room is r and of no other device:
\* it is the consumption of the rows of the devices mapped to r alone, and
\* it is nonzero only if the bucket holds a reading of a device mapped to r.
C11_RoomFilter ==
    (ret # NoEntry /\ arg.room # NoRoom) =>
        /\ ret.consumption =
               RefMax0(RefRound3(
                   RefConsumptionSum(arg.data, arg.mapping, arg.room)))
        /\ ret.consumption =
               CalcOn(RowsOfRoom(arg.data, arg.mapping, arg.room)).consumption
        /\ ret.consumption # 0 =>
               RowsOfRoom(arg.data, arg.mapping, arg.room) # <<>>

\* A device of the requested room is counted next to a device of another
\* room that has a delta of its own.
C11_Witness ==
    /\ ret # NoEntry
    /\ arg.room # NoRoom
    /\ ret.consumption > 0
    /\ \E m \in RefDevices(arg.data) :
           /\ m \in DOMAIN arg.mapping.macToRoomMap
           /\ arg.mapping.macToRoomMap[m] # arg.room
           /\ m # SupplyNormalized
           /\ Cardinality(RefIdx(arg.data, m)) >= 2
           /\ RefDelta(arg.data, m) > 0

\* C12 (Spec): a request that passed validation and names a room without
\* mapped devices is answered 200 with empty data, a message, totalRecords 0
\* and the known rooms, and none of its bucket queries is ever issued.
C12_RoomWithoutMeters ==
    \A c \in DataClients :
        (/\ mappingData[c] # NoMapping
         /\ pc[c] \notin {"idle", "gotMapping"}
         /\ req[c].room # NoRoom
         /\ req[c].room \notin DOMAIN mappingData[c].roomToMacsMap)
        => /\ pc[c] = "done"
           /\ resp[c].status = 200
           /\ resp[c].data = <<>>
           /\ "message" \in DOMAIN resp[c]
           /\ resp[c].meta.totalRecords = 0
           /\ resp[c].meta.availableRooms = DOMAIN mappingData[c].roomToMacsMap
           /\ query[c] = <<>>
           /\ issued[c] = <<>>

\* Room 9 was asked for while the mapping knows other rooms.
C12_Witness ==
    \E c \in DataClients :
        /\ pc[c] = "done"
        /\ req[c].room = "9"
        /\ resp[c].status = 200
        /\ "message" \in DOMAIN resp[c]
        /\ resp[c].meta.availableRooms # {}

\* The local midnight that begins the date, and the one that ends it, as
\* UTC instants: 16:00 of the day before and 16:00 of the date.
RefMidnightUtc(date) == ToUtc(<<date[1], date[2], date[3], 0, 0>>)
RefNextMidnightUtc(date) == <<date[1], date[2], date[3], 16, 0>>

\* C13 as stated (SpecPeriods): for granularity hour there are exactly 24
\* buckets, each bucket's utcEnd is the next bucket's utcStart, the first
\* starts at the local midnight of the date and the last ends at the next
\* local midnight.
C13_Original ==
    (ret # NoEntry /\ arg.period = "hour") =>
        LET tp == ret.timePeriods
        IN  /\ Len(tp) = 24
            /\ \A k \in 1..(Len(tp) - 1) : tp[k].utcEnd = tp[k + 1].utcStart
            /\ tp[1].utcStart = RefMidnightUtc(arg.date)
            /\ tp[Len(tp)].utcEnd = RefNextMidnightUtc(arg.date)

\* What the generator does give for granularity hour: 24 buckets from the
\* local midnight on, each ending one millisecond before the next begins.
C13_HourBucketsAsBuilt ==
    (ret # NoEntry /\ arg.period = "hour") =>
        LET tp == ret.timePeriods
        IN  /\ Len(tp) = 24
            /\ tp[1].utcStart = RefMidnightUtc(arg.date)
            /\ \A k \in 1..24 :
                   /\ tp[k].utcStart[5] = 0
                   /\ tp[k].utcEnd =
                          [tp[k].utcStart EXCEPT ![5] = MsPerHour - 1]
            /\ \A k \in 1..23 : IsBefore(tp[k].utcEnd, tp[k + 1].utcStart)

\* The first hour of a date ends at 16:59:59.999 UTC of the day before and
\* the second begins at 17:00:00.000: that last millisecond is in neither.
C13_Witness ==
    /\ ret # NoEntry
    /\ arg = [period |-> "hour", date |-> <<2024, 3, 1>>]
    /\ ret.timePeriods[1].utcEnd = <<2024, 2, 29, 16, MsPerHour - 1>>
    /\ ret.timePeriods[2].utcStart = <<2024, 2, 29, 17, 0>>

\* The days of a calendar month.
RefMonthDays(y, mo) ==
    CASE mo \in {1, 3, 5, 7, 8, 10, 12} -> 31
      [] mo \in {4, 6, 9, 11} -> 30
      [] mo = 2 /\ y % 4 = 0 /\ (y % 100 # 0 \/ y % 400 = 0) -> 29
      [] OTHER -> 28

\* C14 (SpecPeriods): for granularity day there is one bucket per day of the
\* local month of the date, the k-th with sortKey k.
C14_OneBucketPerDay ==
    (ret # NoEntry /\ arg.period = "day") =>
        LET tp == ret.timePeriods
        IN  /\ Len(tp) = RefMonthDays(arg.date[1], arg.date[2])
            /\ \A k \in 1..Len(tp) :
                   /\ tp[k].period = k
                   /\ tp[k].local = <<arg.date[1], arg.date[2], k, 0, 0>>

\* The 29 days of February 2024, asked for from the middle of the month.
C14_Witness ==
    /\ ret # NoEntry
    /\ arg = [period |-> "day", date |-> <<2024, 2, 15>>]
    /\ Len(ret.timePeriods) = 29

\* C16 as stated (SpecPeriods): called with a granularity outside hour, day,
\* month, year, the stage fails with an InvalidInput error.
C16_Original ==
    (ret # NoEntry /\ arg.period \notin {"hour", "day", "month", "year"}) =>
        /\ "error" \in DOMAIN ret
        /\ ret.error = "InvalidInput"

\* What the stage does for such a granularity: getTimePeriods returns no
\* bucket and buildDateRangeQuery returns the range of the hour view.
C16_SilentDefault ==
    (ret # NoEntry /\ arg.period \notin {"hour", "day", "month", "year"}) =>
        /\ ret.timePeriods = <<>>
        /\ ret.dateRange = [start |-> RefMidnightUtc(arg.date),
                            stop |-> [RefNextMidnightUtc(arg.date)
                                        EXCEPT ![4] = 15, ![5] = MsPerHour - 1]]

\* The granularity week was given and both functions returned normally.
C16_Witness ==
    /\ ret # NoEntry
    /\ arg = [period |-> "week", date |-> <<2024, 3, 1>>]
    /\ ret.timePeriods = <<>>
    /\ ret.dateRange = buildDateRangeQuery("hour", <<2024, 3, 1>>)

\* C15 (SpecReport): the entries of a report are in strictly ascending
\* order of sortKey, hence with pairwise distinct sortKeys, and in the same
\* order as their UTC start instants.
C15_ReportOrder ==
    \A c \in DataClients :
        (pc[c] = "done" /\ "data" \in DOMAIN resp[c]) =>
            LET d == resp[c].data
            IN  \A i \in 1..Len(d), j \in 1..Len(d) :
                    i < j => /\ d[i].period < d[j].period
                             /\ IsBefore(d[i].utcStart, d[j].utcStart)

\* The report of a day view of 30 buckets, three batches.
C15_Witness ==
    \E c \in DataClients :
        /\ pc[c] = "done"
        /\ req[c].period = "day"
        /\ Len(resp[c].data) = 30

\* The readings of the store that a bucket covers (start <= time < stop)
\* and that the device filter, if any, lets through.
RefBucketRows(start, stop, filter) ==
    SelectSeq(Store,
        LAMBDA r : /\ r._time = start \/ IsBefore(start, r._time)
                   /\ IsBefore(r._time, stop)
                   /\ (filter = <<>> \/ \E i \in 1..Len(filter) :
                                            filter[i] = r.mac_address))

\* C20 (SpecReport): no bucket query is issued twice; when all have
\* succeeded the report has one entry per generated bucket, in the order of
\* the buckets, every bucket queried exactly once, totalRecords the number
\* of buckets, and each entry holds the consumption and supply of its own
\* bucket's readings, 0 and 0 where there are none.
C20_OneEntryPerBucket ==
    \A c \in DataClients :
        /\ \A k \in DOMAIN issued[c] : issued[c][k] <= 1
        /\ (pc[c] = "done" /\ Len(timePeriods[c]) > 0) =>
               LET tp == getTimePeriods(req[c].period, req[c].date)
                   d == resp[c].data
               IN  /\ resp[c].status = 200
                   /\ Len(d) = Len(tp)
                   /\ resp[c].meta.totalRecords = Len(tp)
                   /\ \A k \in 1..Len(tp) :
                          LET rows == RefBucketRows(tp[k].utcStart,
                                                    tp[k].utcEnd, macFilter[c])
                              own == IF rows = <<>>
                                     THEN [consumption |-> 0, supply |-> 0]
                                     ELSE calculateEnergyFromInfluxData(
                                              rows, mappingData[c], req[c].room)
                          IN  /\ issued[c][k] = 1
                              /\ d[k].period = tp[k].period
                              /\ d[k].timestamp = tp[k].timestamp
                              /\ d[k].utcStart = tp[k].utcStart
                              /\ d[k].consumption = own.consumption
                              /\ d[k].supply = own.supply

\* An hour view of 24 buckets, one of them with consumption and supply, the
\* others without readings.
C20_Witness ==
    \E c \in DataClients :
        /\ pc[c] = "done"
        /\ Len(resp[c].data) = 24
        /\ \E k \in 1..24 : /\ resp[c].data[k].consumption > 0
                            /\ resp[c].data[k].supply > 0
        /\ \E k \in 1..24 : /\ resp[c].data[k].consumption = 0
                            /\ resp[c].data[k].supply = 0

\* C17 (Spec): the step that takes up a request whose period is not hour,
\* day, month or year, or whose date cannot be parsed, answers it with the
\* client error 400 and a message, calls neither getMetersMapping nor
\* storage, and leaves metersCache and cacheTimestamp as they are.
C17_RejectedBeforeCore ==
    [][\A c \in DataClients :
          (/\ pc[c] = "idle"
           /\ pc'[c] # "idle"
           /\ \/ req'[c].period \notin {"hour", "day", "month", "year"}
              \/ req'[c].date = InvalidDate)
          => /\ pc'[c] = "done"
             /\ resp'[c].status = 400
             /\ "error" \in DOMAIN resp'[c]
             /\ mapSource'[c] = "none"
             /\ mappingData'[c] = NoMapping
             /\ query'[c] = <<>>
             /\ issued'[c] = <<>>
             /\ UNCHANGED <<metersCache, cacheTimestamp>>]_vars

\* A request with a valid period and an unparsable date was rejected while
\* the cache held a mapping.
C17_Witness ==
    \E c \in DataClients :
        /\ pc[c] = "done"
        /\ req[c].period = "year"
        /\ req[c].date = InvalidDate
        /\ resp[c].status = 400
        /\ metersCache # NoMapping

RefIsDelimiter(ch) == ch = ":" \/ ch = "-" \/ ch = " "

\* x is a string with at least one character that is not a delimiter.
RefHasDigits(x) == x # Null /\ \E i \in 1..Len(x) : ~RefIsDelimiter(x[i])

RefUpperChar(ch) ==
    CASE ch = "a" -> "A" [] ch = "b" -> "B" [] ch = "c" -> "C"
      [] ch = "d" -> "D" [] ch = "e" -> "E" [] ch = "f" -> "F" [] OTHER -> ch

\* x in upper case, x with each delimiter replaced by ch, and x without
\* its delimiters: other textual forms of the same address.
RefUpper(x) == [i \in 1..Len(x) |-> RefUpperChar(x[i])]
RefDelimitedBy(x, ch) ==
    [i \in 1..Len(x) |-> IF RefIsDelimiter(x[i]) THEN ch ELSE x[i]]
RefUndelimited(x) == SelectSeq(x, LAMBDA ch : ~RefIsDelimiter(ch))

\* The forms of one address normalise alike.
RefFormsAgree(x, once) ==
    /\ normalizeMacAddress(RefUpper(x)) = once
    /\ normalizeMacAddress(RefDelimitedBy(x, "-")) = once
    /\ normalizeMacAddress(RefDelimitedBy(x, ":")) = once
    /\ normalizeMacAddress(RefUndelimited(x)) = once
    /\ x \in {FormColonUpper, FormHyphenLower, FormPlain} => once = FormPlain

\* C18 as stated (SpecNormalize): normalising twice gives what normalising
\* once gives, for every input, and the upper-case, re-delimited and
\* undelimited forms of an input normalise to the same value.
C18_Original ==
    ret # NoEntry =>
        /\ ret.twice = ret.once
        /\ arg.mac # Null => RefFormsAgree(arg.mac, ret.once)

\* C18 as amended: normalising twice gives what normalising once gives for
\* null, for the empty string and for every string with a character that is
\* not a delimiter, and the forms of such a string normalise to the same
\* value; a non-empty string of delimiters alone gives the empty string,
\* and the empty string gives null.
C18_IdempotentOnAddresses ==
    ret # NoEntry =>
        /\ (arg.mac = Null \/ arg.mac = <<>> \/ RefHasDigits(arg.mac))
               => ret.twice = ret.once
        /\ RefHasDigits(arg.mac) => RefFormsAgree(arg.mac, ret.once)
        /\ (arg.mac # Null /\ arg.mac # <<>> /\ ~RefHasDigits(arg.mac))
               => (ret.once = <<>> /\ ret.twice = Null)

\* The colon-delimited upper-case form was normalised, once and twice.
C18_Witness ==
    /\ ret # NoEntry
    /\ arg.mac = FormColonUpper
    /\ ret.once = FormPlain
    /\ ret.twice = FormPlain

\* C19 (SpecRequest): no bucket query is issued more than once, and once a
\* query of some batch has failed the queries issued for the request are
\* those of that batch and of the batches before it, each issued once, and
\* none of a later batch.
C19_NoRetryNoLaterBatch ==
    \A c \in DataClients :
        /\ \A j \in DOMAIN issued[c] : issued[c][j] <= 1
        /\ \A k \in FailedQueries(c) : \A j \in DOMAIN issued[c] :
               issued[c][j] =
                   IF (j - 1) \div 10 <= (k - 1) \div 10 THEN 1 ELSE 0

\* A query of the first batch of twelve buckets failed; the request has been
\* answered, the other nine queries have settled, and buckets 11 and 12
\* were never queried.
C19_Witness ==
    \E c \in DataClients :
        /\ pc[c] = "done"
        /\ Len(timePeriods[c]) = 12
        /\ \E k \in FailedQueries(c) : k <= 10
        /\ \A j \in 1..10 : query[c][j] \in {"ok", "fail"}
        /\ issued[c][11] = 0
        /\ issued[c][12] = 0

\* The consumption and supply of the readings the store holds for one bucket
\* under a mapping and a room filter.
RefBucketEnergy(timePeriod, filter, mapping, room) ==
    LET rows == RefBucketRows(timePeriod.utcStart, timePeriod.utcEnd, filter)
    IN  IF rows = <<>> THEN [consumption |-> 0, supply |-> 0]
        ELSE calculateEnergyFromInfluxData(rows, mapping, room)

\* C21 (SpecRefresh): from the return of its getMetersMapping call until it
\* leaves, a request makes no second call and holds the same mapping,
\* whatever happens to the cache; and every bucket entry it has computed,
\* and every entry of the report it sends, is the aggregate of that
\* bucket's own readings under that mapping and the room filter.
C21_OneSnapshotPerReport ==
    /\ [][\A c \in DataClients :
             (pc[c] \notin {"idle", "fetchMapping"} /\ pc'[c] # "idle")
             => /\ mappingData'[c] = mappingData[c]
                /\ callNow'[c] = callNow[c]
                /\ mapSource'[c] = mapSource[c]]_vars
    /\ [](\A c \in DataClients :
             /\ \A k \in DOMAIN entry[c] :
                    entry[c][k] # NoEntry =>
                        LET own == RefBucketEnergy(timePeriods[c][k],
                                       macFilter[c], mappingData[c], req[c].room)
                        IN  /\ entry[c][k].consumption = own.consumption
                            /\ entry[c][k].supply = own.supply
             /\ (pc[c] = "done" /\ Len(timePeriods[c]) > 0) =>
                    \A k \in 1..Len(timePeriods[c]) :
                        LET own == RefBucketEnergy(timePeriods[c][k],
                                       macFilter[c], mappingData[c], req[c].room)
                        IN  /\ resp[c].data[k].consumption = own.consumption
                            /\ resp[c].data[k].supply = own.supply)

\* The first bucket of a report has been aggregated and the second is still
\* being queried, while the cache holds another mapping than the request
\* does, one under which the first bucket would have given another figure.
C21_Witness ==
    \E c \in DataClients :
        /\ pc[c] = "batch"
        /\ Len(timePeriods[c]) = 2
        /\ query[c][1] = "ok"
        /\ query[c][2] = "out"
        /\ metersCache # NoMapping
        /\ metersCache # mappingData[c]
        /\ entry[c][1].consumption > 0
        /\ entry[c][1].consumption #
               RefBucketEnergy(timePeriods[c][1], macFilter[c], metersCache,
                               req[c].room).consumption

\* The sum of the deltas of the counted devices, each clamped to zero first.
RefPerDeviceClampedSum(data, mapping, room) ==
    SumOver(RefCounted(data, mapping, room),
            [m \in RefCounted(data, mapping, room) |->
                RefMax0(RefDelta(data, m))])

\* C22 as stated (SpecCalc): consumption is max(0, the sum of the signed
\* deltas of the counted devices) and supply is max(0, the supply delta).
C22_Original ==
    ret # NoEntry =>
        /\ ret.consumption =
               RefMax0(RefConsumptionSum(arg.data, arg.mapping, arg.room))
        /\ ret.supply = RefMax0(RefSupplySum(arg.data))

\* C22 as amended: each category is max(0, its sum of signed deltas rounded
\* to 3 decimals), the clamp applied to the total and to each category on
\* its own; a counted device whose delta is negative by a thousandth or more
\* brings the consumption below what clamping each device would give.
C22_ClampOnTotals ==
    ret # NoEntry =>
        LET sumC == RefConsumptionSum(arg.data, arg.mapping, arg.room)
            sumS == RefSupplySum(arg.data)
            perDevice ==
                RefRound3(RefPerDeviceClampedSum(arg.data, arg.mapping, arg.room))
        IN  /\ ret.consumption = (IF RefRound3(sumC) < 0 THEN 0 ELSE RefRound3(sumC))
            /\ ret.supply = (IF RefRound3(sumS) < 0 THEN 0 ELSE RefRound3(sumS))
            /\ ret.consumption <= perDevice
            /\ (/\ perDevice > 0
                /\ \E m \in RefCounted(arg.data, arg.mapping, arg.room) :
                       RefDelta(arg.data, m) <= 0 - 10)
               => ret.consumption < perDevice
            /\ arg = Rollover => ret = [consumption |-> 20000, supply |-> 0]

\* Meter A rolls over by 1.0 next to meter B, which advances by 3.0: the
\* consumption is 2.0, above zero and below the 3.0 of meter B, while the
\* supply, rolling over too, is 0.
C22_Witness ==
    /\ ret # NoEntry
    /\ arg = Rollover
    /\ \E m \in RefCounted(arg.data, arg.mapping, arg.room) :
           RefDelta(arg.data, m) < 0
    /\ ret.consumption > 0
    /\ ret.consumption < RefPerDeviceClampedSum(arg.data, arg.mapping, arg.room)
    /\ RefSupplySum(arg.data) < 0
    /\ ret.supply = 0

\* The rows of a response that carry a device identifier and a room.
RefValidRows(rows) ==
    {i \in 1..Len(rows) :
        /\ rows[i].meter_mac # Null
        /\ rows[i].meter_mac # <<>>
        /\ normalizeMacAddress(rows[i].meter_mac) # <<>>
        /\ rows[i].room_id # Undefined}

\* The valid rows of device m.
RefRowsOf(rows, m) ==
    {i \in RefValidRows(rows) : normalizeMacAddress(rows[i].meter_mac) = m}

\* C23 as stated (SpecMapping): the forward map holds every device of the
\* valid rows, and gives a device with several rows the room of its row with
\* the most recent timestamp.
C23_Original ==
    ret # NoEntry =>
        /\ DOMAIN ret.macToRoomMap =
               {normalizeMacAddress(arg.rows[i].meter_mac) :
                   i \in RefValidRows(arg.rows)}
        /\ \A m \in DOMAIN ret.macToRoomMap :
               \A i \in RefRowsOf(arg.rows, m) :
                   (\A j \in RefRowsOf(arg.rows, m) \ {i} :
                        IsBefore(arg.rows[j]._time, arg.rows[i]._time))
                   => ret.macToRoomMap[m] = arg.rows[i].room_id

\* What the builder does give: the room of the device's last valid row in
\* the order of the response, whatever the timestamps.
C23_LastRowWins ==
    ret # NoEntry =>
        /\ DOMAIN ret.macToRoomMap =
               {normalizeMacAddress(arg.rows[i].meter_mac) :
                   i \in RefValidRows(arg.rows)}
        /\ \A m \in DOMAIN ret.macToRoomMap :
               \A i \in RefRowsOf(arg.rows, m) :
                   (\A j \in RefRowsOf(arg.rows, m) : j <= i)
                   => ret.macToRoomMap[m] = arg.rows[i].room_id

\* Meter A is on record as AA:01 in room 2 since 2024 and as aa01 in room 1
\* since 2023; the response lists AA:01 first, and the map says room 1.
C23_Witness ==
    /\ ret # NoEntry
    /\ arg.rows =
           << [meter_mac |-> MacA, room_id |-> "2",
               _time |-> <<2024, 1, 5, 0, 0>>],
              [meter_mac |-> MacALower, room_id |-> "1",
               _time |-> <<2023, 1, 5, 0, 0>>] >>
    /\ ret.macToRoomMap[MacALower] = "1"

\* C24 (SpecYears): a year-view request for a date of year Y that reaches
\* the bucket queries has Y - 2023 + 1 buckets when Y >= 2023, with sortKeys
\* 2023..Y in this order, the first starting at local 2023-01-01T00:00,
\* which is 2022-12-31T16:00Z, and its report has one entry per bucket;
\* for Y < 2023 it has no bucket, issues no bucket query and is answered
\* with an empty report of totalRecords 0.
C24_YearView ==
    \A c \in DataClients :
        (req[c].period = "year" /\ pc[c] \in {"batch", "finish", "done"}) =>
            LET Y == req[c].date[1]
                tp == timePeriods[c]
            IN  IF Y >= 2023
                THEN /\ Len(tp) = Y - 2023 + 1
                     /\ \A k \in 1..Len(tp) : tp[k].period = 2022 + k
                     /\ tp[1].local = <<2023, 1, 1, 0, 0>>
                     /\ tp[1].utcStart = <<2022, 12, 31, 16, 0>>
                     /\ pc[c] = "done" =>
                            /\ resp[c].meta.totalRecords = Y - 2023 + 1
                            /\ \A k \in 1..Len(tp) :
                                   resp[c].data[k].period = 2022 + k
                ELSE /\ tp = <<>>
                     /\ pc[c] # "batch"
                     /\ issued[c] = <<>>
                     /\ pc[c] = "done" =>
                            /\ resp[c].status = 200
                            /\ resp[c].data = <<>>
                            /\ resp[c].meta.totalRecords = 0

\* A request for 2025 was answered with the three buckets 2023, 2024, 2025.
C24_Witness ==
    \E c \in DataClients :
        /\ pc[c] = "done"
        /\ req[c].date[1] = 2025
        /\ Len(resp[c].data) = 3
        /\ resp[c].data[3].period = 2025

\* A request for 2022 was answered with the empty report.
C24_WitnessBefore ==
    \E c \in DataClients :
        /\ pc[c] = "done"
        /\ req[c].date[1] = 2022
        /\ resp[c].status = 200
        /\ resp[c].data = <<>>

\* The devices the forward map of a mapping assigns to a room.
RefDevicesOfRoom(mapping, room) ==
    {m \in DOMAIN mapping.macToRoomMap : mapping.macToRoomMap[m] = room}

\* A request that has issued bucket queries.
SentQueries(c) == pc[c] \in {"batch", "finish"} /\ Len(timePeriods[c]) > 0

\* C25 as stated (SpecFilter): a request for a room to which the forward
\* map assigns devices sends, with its bucket queries, a filter made of
\* display forms of exactly those devices, one at least for each; a request
\* without a room sends no filter.
C25_Original ==
    \A c \in DataClients :
        SentQueries(c) =>
            LET mapping == mappingData[c]
                room == req[c].room
                devices == RefDevicesOfRoom(mapping, room)
            IN  /\ room = NoRoom => macFilter[c] = <<>>
                /\ (room # NoRoom /\ devices # {}) =>
                       /\ \A i \in 1..Len(macFilter[c]) :
                              normalizeMacAddress(macFilter[c][i]) \in devices
                       /\ \A m \in devices :
                              \E i \in 1..Len(macFilter[c]) :
                                  normalizeMacAddress(macFilter[c][i]) = m

\* What the handler does send: for a room, the original fields of the
\* entries of the reverse index of that room, in their order; without a
\* room, no filter.
C25_FilterFromReverseIndex ==
    \A c \in DataClients :
        SentQueries(c) =>
            LET index == mappingData[c].roomToMacsMap
                room == req[c].room
            IN  IF room = NoRoom THEN macFilter[c] = <<>>
                ELSE /\ room \in DOMAIN index
                     /\ Len(macFilter[c]) = Len(index[room])
                     /\ \A i \in 1..Len(macFilter[c]) :
                            macFilter[c][i] = index[room][i].original

\* Room 1 was requested; the forward map assigns it meter B only, and the
\* filter sent also names AA:01, a spelling of meter A, which the forward
\* map assigns to room 2.
C25_Witness ==
    \E c \in DataClients :
        /\ SentQueries(c)
        /\ req[c].room = "1"
        /\ RefDevicesOfRoom(mappingData[c], "1") = {normalizeMacAddress(MacB)}
        /\ MacALower \in DOMAIN mappingData[c].macToRoomMap
        /\ mappingData[c].macToRoomMap[MacALower] = "2"
        /\ \E i \in 1..Len(macFilter[c]) : macFilter[c][i] = MacA

\* x is spelled with colons between its pairs of digits.
RefColonSpelled(x) ==
    /\ \E i \in 1..Len(x) : x[i] = ":"
    /\ \A i \in 1..Len(x) : x[i] # "-" /\ x[i] # " "

\* C26 as stated (SpecVariants): on the same readings, meters table and
\* room, the three aggregators return the same consumption and supply,
\* whatever the spellings of the device identifiers.
C26_Original ==
    ret # NoEntry =>
        /\ ret.influx = ret.legacyInflux
        /\ ret.influx = ret.buckets

\* What does hold: the two aggregators of part_001 agree with each other,
\* and all three agree when every identifier is colon-delimited and the
\* readings of a device are all spelled alike.
C26_AgreeOnColonSpellings ==
    ret # NoEntry =>
        /\ ret.legacyInflux = ret.buckets
        /\ (/\ \A i \in 1..Len(arg.data) :
                   RefColonSpelled(arg.data[i].mac_address)
            /\ \A i \in 1..Len(arg.meters) :
                   arg.meters[i].meter_mac # MacB =>
                       RefColonSpelled(arg.meters[i].meter_mac)
            /\ arg.data[1].mac_address = arg.data[2].mac_address
            /\ arg.data[3].mac_address = arg.data[4].mac_address)
           => /\ ret.influx = ret.legacyInflux
              /\ ret.influx.supply = 80000
              /\ arg.room \in {NoRoom, "1"} => ret.influx.consumption = 25000

\* Meter A is AA:01 in the meters table and AA-01 in its readings, all
\* rooms: part_000 reports its 2.5 kWh, the two aggregators of part_001
\* report 0.
C26_Witness ==
    /\ ret # NoEntry
    /\ arg.room = NoRoom
    /\ arg.meters[1].meter_mac = <<"A","A",":","0","1">>
    /\ arg.data[1].mac_address = <<"A","A","-","0","1">>
    /\ arg.data[2].mac_address = <<"A","A","-","0","1">>
    /\ arg.data[3].mac_address = SUPPLY_MAC_NORMALIZED
    /\ arg.data[4].mac_address = SUPPLY_MAC_NORMALIZED
    /\ ret.influx = [consumption |-> 25000, supply |-> 80000]
    /\ ret.legacyInflux = [consumption |-> 0, supply |-> 80000]
    /\ ret.buckets = [consumption |-> 0, supply |-> 80000]

\* How many entries of the list of room r name the device m.
RefEntriesOf(index, r, m) ==
    Cardinality({i \in 1..Len(index[r]) : index[r][i].normalized = m})

\* C27 as stated (SpecMapping): every entry of the list of a room names a
\* device that the forward map assigns to that room, and every device of
\* the forward map is named once in the list of one room and in no other.
C27_Original ==
    ret # NoEntry =>
        LET forward == ret.macToRoomMap
            index == ret.roomToMacsMap
        IN  /\ \A r \in DOMAIN index : \A i \in 1..Len(index[r]) :
                   /\ index[r][i].normalized \in DOMAIN forward
                   /\ forward[index[r][i].normalized] = r
            /\ \A m \in DOMAIN forward :
                   /\ forward[m] \in DOMAIN index
                   /\ RefEntriesOf(index, forward[m], m) = 1
                   /\ \A r \in DOMAIN index \ {forward[m]} :
                          RefEntriesOf(index, r, m) = 0

\* What the builder does give: one entry of the reverse index per valid row
\* of the response, in the list of that row's room; the forward map names
\* the room of a device's last row, so the two are inverse of each other
\* exactly when no device has two valid rows.
C27_OneEntryPerRow ==
    ret # NoEntry =>
        LET forward == ret.macToRoomMap
            index == ret.roomToMacsMap
            valid == RefValidRows(arg.rows)
        IN  /\ DOMAIN index = {arg.rows[i].room_id : i \in valid}
            /\ \A r \in DOMAIN index :
                   LET own == SelectSeq(arg.rows,
                                  LAMBDA row : row.room_id = r)
                   IN  /\ Len(index[r]) = Len(own)
                       /\ \A i \in 1..Len(own) :
                              /\ index[r][i].original = own[i].meter_mac
                              /\ index[r][i].normalized =
                                     normalizeMacAddress(own[i].meter_mac)
            /\ \A m \in DOMAIN forward :
                   RefEntriesOf(index, forward[m], m) >= 1
            /\ (\A m \in DOMAIN forward :
                    Cardinality(RefRowsOf(arg.rows, m)) = 1)
               => C27_Original

\* Meter A is on record as AA:01 in room 1 and as aa01 in room 2: the
\* forward map says room 2 and the list of room 1 still names the device.
C27_Witness ==
    /\ ret # NoEntry
    /\ Len(arg.rows) = 2
    /\ arg.rows[1].meter_mac = MacA
    /\ arg.rows[1].room_id = "1"
    /\ arg.rows[2].meter_mac = MacALower
    /\ arg.rows[2].room_id = "2"
    /\ ret.macToRoomMap[MacALower] = "2"
    /\ RefEntriesOf(ret.roomToMacsMap, "1", MacALower) = 1
    /\ RefEntriesOf(ret.roomToMacsMap, "2", MacALower) = 1

\* C28 (Spec): the step in which the meters query of a call fails leaves
\* metersCache and cacheTimestamp as they were; the cache never holds the
\* empty fallback mapping; and a call made while the cache is absent or its
\* timestamp is 5 minutes old or older issues the meters query, whether or
\* not a refresh has failed before.
C28_FailedRefreshKeepsCache ==
    /\ [][\A c \in Clients :
             (pc[c] = "fetchMapping" /\ mapSource'[c] = "fallback")
             => UNCHANGED <<metersCache, cacheTimestamp>>]_vars
    /\ [](/\ metersCache # EmptyMaps
          /\ metersCache = NoMapping <=> cacheTimestamp = 0)
    /\ [][\A c \in Clients :
             (/\ CallsGetMetersMapping(c)
              /\ \/ metersCache = NoMapping
                 \/ now - cacheTimestamp >= 5 * 60 * 1000)
             => pc'[c] = "fetchMapping"]_vars

\* The first refresh has failed and its caller went on with the empty
\* mapping; the cache is still absent, and a call made later by the other
\* caller has issued the meters query again.
C28_Witness ==
    \E c \in Clients, d \in Clients :
        /\ mapSource[c] = "fallback"
        /\ pc[c] \in {"gotMapping", "batch", "finish", "done", "debugQueries"}
        /\ mappingData[c] = EmptyMaps
        /\ metersCache = NoMapping
        /\ cacheTimestamp = 0
        /\ pc[d] = "fetchMapping"
        /\ callNow[d] > callNow[c]

\* A meters query of caller c resolves and its rows are installed (lines
\* 112-162).
RefInstalls(c) ==
    /\ pc[c] = "fetchMapping"
    /\ pc'[c] = "gotMapping"
    /\ mapSource'[c] = "load"

\* C29: under every interleaving of getMetersMapping calls that miss the
\* cache, cacheTimestamp never decreases, and the cached snapshot is never
\* replaced by the result of a refresh that started before the refresh whose
\* snapshot is cached.
C29_Original ==
    /\ [][cacheTimestamp' >= cacheTimestamp]_vars
    /\ [][\A c \in Clients :
             RefInstalls(c) => callNow[c] >= cacheTimestamp]_vars

\* C29, as the code behaves: the refresh that resolves last fills the cache,
\* whenever it started; the timestamp cached is the now read at the start of
\* that call, never a later one.
C29_LastResolvedWins ==
    /\ [][\A c \in Clients :
             RefInstalls(c) => /\ metersCache' = mappingData'[c]
                               /\ cacheTimestamp' = callNow[c]]_vars
    /\ [][cacheTimestamp' # cacheTimestamp
             => \E c \in Clients : RefInstalls(c)]_vars
    /\ [](cacheTimestamp <= now)

\* A caller holds the table its refresh loaded, the cache holds another
\* table, and the cache is stamped with the start of an earlier call: the
\* refresh that started first resolved last.
C29_Witness ==
    \E c \in Clients :
        /\ mapSource[c] = "load"
        /\ pc[c] \in {"gotMapping", "batch", "finish", "done", "debugQueries"}
        /\ metersCache # NoMapping
        /\ metersCache # mappingData[c]
        /\ 0 < cacheTimestamp
        /\ cacheTimestamp < callNow[c]

\* The reorderings of a list of rows.
RefReorderings(data) ==
    { [i \in 1..Len(data) |-> data[p[i]]] :
        p \in {q \in [1..Len(data) -> 1..Len(data)] :
                  \A i \in 1..Len(data), j \in 1..Len(data) :
                      q[i] = q[j] => i = j} }

\* Two rows of one device (one normalised MAC) carry the same timestamp.
RefSharedTimestamp(data) ==
    \E i \in 1..Len(data), j \in 1..Len(data) :
        /\ i # j
        /\ normalizeMacAddress(data[i].mac_address)
               = normalizeMacAddress(data[j].mac_address)
        /\ data[i]._time = data[j]._time

\* C30: calculateEnergyFromInfluxData returns the same consumption and
\* supply for every reordering of its rows, readings of one device that
\* share a timestamp included.
C30_Original ==
    ret # NoEntry
    => \A d \in RefReorderings(arg.data) :
           calculateEnergyFromInfluxData(d, arg.mapping, arg.room) = ret

\* C30, as the code behaves: the result is the same for every reordering
\* of rows among which no device has two readings at one timestamp.
C30_DistinctTimestamps ==
    (ret # NoEntry /\ ~RefSharedTimestamp(arg.data))
    => \A d \in RefReorderings(arg.data) :
           calculateEnergyFromInfluxData(d, arg.mapping, arg.room) = ret

\* The function has been applied to rows in which meter A has two readings
\* at its earliest timestamp, and another order of the same rows gives
\* another consumption.
C30_Witness ==
    /\ ret # NoEntry
    /\ RefSharedTimestamp(arg.data)
    /\ \E d \in RefReorderings(arg.data) :
           calculateEnergyFromInfluxData(d, arg.mapping, arg.room).consumption
               # ret.consumption

=============================================================================
